---- MODULE Spec2Model ----
(***************************************************************************)
(* Model of the Annotation Canvas Engine of red-ink:                       *)
(*   frontend/src/components/AnnotationCanvas.jsx                          *)
(* Numbers are JavaScript numbers restricted to exact rationals <<n, d>>   *)
(* (d > 0, reduced); <<0, 0>> is `undefined` and <<1, 0>> is NaN.          *)
(* Floating-point rounding is not modelled: arithmetic is exact.           *)
(***************************************************************************)
EXTENDS Integers, Sequences, FiniteSets, TLC

VARIABLES
  gIn, gDims, gStage, gVal,       \* Geometry Normalizer harness
  docId,              \* the id route parameter of DocumentPage
  docOpen,            \* DocumentPage is mounted
  loading,            \* fetchData is in flight
  readOnly,           \* the session is not the owner's
  annotationsMap,     \* annotationsMap state of DocumentPage
  canUndoMap,         \* canUndoMap state of DocumentPage
  activePage,         \* activePage state of DocumentPage
  pageHist,           \* historyRef.current of each page's canvas, as payloads
  saveRef,            \* saveFunctionsRef.current: key -> the closure of the function
  timers,             \* the armed timers of the debounced save functions
  saves,              \* the calls of saveAnnotations, with their outcome
  reports,            \* the failed saves the session has reported, by index
  loaded,             \* the entries the last completed load returned
  lastDown,           \* the page of the most recent pointer-down (0: none)
  docOp,              \* the handler the last step of the document ran
  mounted,            \* isMountedRef.current, and fabricRef.current # null
  width, height,      \* the props of the current render
  prevDimensions,     \* prevDimensionsRef.current
  scene,              \* the objects of the fabric canvas, in paint order
  history,            \* historyRef.current
  pending,            \* enlivenObjects promises not yet resolved
  activeTool,         \* the activeTool prop
  isDrawing,          \* isDrawingRef.current
  startPoint,         \* startPointRef.current
  tempIdx,            \* tempObjectRef.current, as its index in scene (0: null)
  drawPoints,         \* drawPointsRef.current
  lastPointer,        \* where the last pointer event of the gesture was
  justExitedTextEdit, \* justExitedTextEditRef.current
  selection,          \* canvas.selection
  editTimer,          \* index of the textbox whose enterEditing timer is armed
  editing,            \* index of the textbox in edit mode (0: none)
  transforming,       \* index of the object being dragged or scaled (0: none)
  emitted,            \* payloads the last step passed to onCanvasChange
  histCb,             \* values the last step passed to onHistoryChange
  lastOp,             \* the handler the last step ran, with its outcome
  canUndo,            \* the value last passed to onHistoryChange
  mark,               \* scene and history before the command or gesture under way
  active,             \* canvas.getActiveObjects(), as indices in scene
  activeColor,        \* the activeColor prop
  renderDue,          \* the parent has a state update to render
  lastHit,            \* opt.target # null at the most recent pointer-down
  payloads            \* for each history entry, its normalized form when it was pushed

gvars == <<gIn, gDims, gStage, gVal>>

svars == <<mounted, width, height, prevDimensions, scene, history, pending,
           activeTool, isDrawing, startPoint, tempIdx, drawPoints, lastPointer,
           justExitedTextEdit, selection, editTimer, editing, transforming,
           emitted, histCb, lastOp, canUndo, mark, active, activeColor, renderDue,
           lastHit, payloads>>

dvars == <<docId, docOpen, loading, readOnly, annotationsMap, canUndoMap,
           activePage, pageHist, saveRef, timers, saves, reports, loaded,
           lastDown, docOp>>

\* what a step of one page canvas leaves alone: the harness, the document and
\* the props that only the parent changes
ovars == <<gvars, dvars, activeColor, lastHit>>

vars == <<gvars, dvars, svars>>

----------------------------------------------------------------------------
(* JavaScript numbers *)

Abs(x) == IF x < 0 THEN -x ELSE x

RECURSIVE GCD(_, _)
GCD(a, b) == IF b = 0 THEN a ELSE GCD(b, a % b)

Rat(n, d) ==
  LET g == GCD(Abs(n), Abs(d))
      s == IF d < 0 THEN -1 ELSE 1
  IN  <<(s * n) \div g, (s * d) \div g>>

Num(k) == <<k, 1>>
Undef == <<0, 0>>
NaN == <<1, 0>>
Zero == Num(0)
One == Num(1)

IsNum(v) == v[2] > 0
\* JS truthiness of a number-or-undefined: undefined, NaN and 0 are falsy
Truthy(v) == IsNum(v) /\ v[1] # 0
\* `v || 1`
OrOne(v) == IF Truthy(v) THEN v ELSE One
\* `v !== undefined`
Defined(v) == v # Undef

JsMul(a, b) == IF IsNum(a) /\ IsNum(b) THEN Rat(a[1] * b[1], a[2] * b[2]) ELSE NaN
JsDiv(a, b) ==
  IF IsNum(a) /\ IsNum(b) /\ b[1] # 0 THEN Rat(a[1] * b[2], a[2] * b[1]) ELSE NaN
JsAdd(a, b) ==
  IF IsNum(a) /\ IsNum(b) THEN Rat(a[1] * b[2] + b[1] * a[2], a[2] * b[2]) ELSE NaN
JsSub(a, b) ==
  IF IsNum(a) /\ IsNum(b) THEN Rat(a[1] * b[2] - b[1] * a[2], a[2] * b[2]) ELSE NaN
\* comparisons with NaN or undefined are false, as in JavaScript
JsLt(a, b) == IsNum(a) /\ IsNum(b) /\ a[1] * b[2] < b[1] * a[2]
JsGt(a, b) == JsLt(b, a)
\* Math.max / Math.min / Math.abs on numbers
JsMax(a, b) == IF JsLt(a, b) THEN b ELSE a
JsMin(a, b) == IF JsLt(b, a) THEN b ELSE a
JsAbs(a) == IF IsNum(a) THEN <<Abs(a[1]), a[2]>> ELSE NaN

----------------------------------------------------------------------------
(* Serialized objects (what canvas.toJSON() holds for one object).  A field *)
(* that the object does not have is Undef.  `objects` holds the children    *)
(* of a group (the line and the head of an arrow).                          *)

NoGeom ==
  [left |-> Undef, top |-> Undef, width |-> Undef, height |-> Undef,
   scaleX |-> Undef, scaleY |-> Undef, fontSize |-> Undef,
   x1 |-> Undef, y1 |-> Undef, x2 |-> Undef, y2 |-> Undef,
   strokeWidth |-> Undef, radius |-> Undef]

MkObj(type, geom, text, color, kids, path) ==
  [type |-> type, left |-> geom.left, top |-> geom.top,
   width |-> geom.width, height |-> geom.height,
   scaleX |-> geom.scaleX, scaleY |-> geom.scaleY, fontSize |-> geom.fontSize,
   x1 |-> geom.x1, y1 |-> geom.y1, x2 |-> geom.x2, y2 |-> geom.y2,
   strokeWidth |-> geom.strokeWidth, radius |-> geom.radius,
   text |-> text, color |-> color, objects |-> kids, path |-> path]

----------------------------------------------------------------------------
(* Geometry Normalizer *)

\* a variant of normalizeObject that multiplies the scale into the sizes and
\* leaves the scale factors on the object
normalizeObjectKeepScale(obj, w, h) ==
  LET effectiveScaleX == OrOne(obj.scaleX)
      effectiveScaleY == OrOne(obj.scaleY)
  IN  [obj EXCEPT
        !.left = JsDiv(obj.left, w),
        !.top = JsDiv(obj.top, h),
        !.scaleX = @,
        !.scaleY = @,
        !.width = IF Truthy(obj.width)
                    THEN JsDiv(JsMul(obj.width, effectiveScaleX), w) ELSE @,
        !.height = IF Truthy(obj.height)
                    THEN JsDiv(JsMul(obj.height, effectiveScaleY), h) ELSE @,
        !.fontSize = IF Truthy(obj.fontSize)
                    THEN JsDiv(JsMul(obj.fontSize, effectiveScaleY), h) ELSE @,
        !.x1 = IF Defined(obj.x1) THEN JsDiv(JsMul(obj.x1, effectiveScaleX), w) ELSE @,
        !.y1 = IF Defined(obj.y1) THEN JsDiv(JsMul(obj.y1, effectiveScaleY), h) ELSE @,
        !.x2 = IF Defined(obj.x2) THEN JsDiv(JsMul(obj.x2, effectiveScaleX), w) ELSE @,
        !.y2 = IF Defined(obj.y2) THEN JsDiv(JsMul(obj.y2, effectiveScaleY), h) ELSE @,
        !.strokeWidth = IF Truthy(obj.strokeWidth)
                    THEN JsDiv(JsMul(obj.strokeWidth, effectiveScaleX), w) ELSE @,
        !.radius = IF Truthy(obj.radius)
                    THEN JsDiv(JsMul(obj.radius, effectiveScaleX), w) ELSE @]

\* normalizeObject of normalizeData (lines 65-100), applied to one top-level
\* object
normalizeObject(obj, w, h) ==
  LET effectiveScaleX == OrOne(obj.scaleX)
      effectiveScaleY == OrOne(obj.scaleY)
  IN  [obj EXCEPT
        !.left = JsDiv(obj.left, w),
        !.top = JsDiv(obj.top, h),
        !.scaleX = One,
        !.scaleY = One,
        !.width = IF Truthy(obj.width)
                    THEN JsDiv(JsMul(obj.width, effectiveScaleX), w) ELSE @,
        !.height = IF Truthy(obj.height)
                    THEN JsDiv(JsMul(obj.height, effectiveScaleY), h) ELSE @,
        !.fontSize = IF Truthy(obj.fontSize)
                    THEN JsDiv(JsMul(obj.fontSize, effectiveScaleY), h) ELSE @,
        !.x1 = IF Defined(obj.x1) THEN JsDiv(JsMul(obj.x1, effectiveScaleX), w) ELSE @,
        !.y1 = IF Defined(obj.y1) THEN JsDiv(JsMul(obj.y1, effectiveScaleY), h) ELSE @,
        !.x2 = IF Defined(obj.x2) THEN JsDiv(JsMul(obj.x2, effectiveScaleX), w) ELSE @,
        !.y2 = IF Defined(obj.y2) THEN JsDiv(JsMul(obj.y2, effectiveScaleY), h) ELSE @,
        !.strokeWidth = IF Truthy(obj.strokeWidth)
                    THEN JsDiv(JsMul(obj.strokeWidth, effectiveScaleX), w) ELSE @,
        !.radius = IF Truthy(obj.radius)
                    THEN JsDiv(JsMul(obj.radius, effectiveScaleX), w) ELSE @]

\* a variant of normalizeData whose guard tests the width alone
normalizeDataWidthGuard(json, w, h) ==
  IF ~Truthy(w) THEN json
  ELSE [json EXCEPT !.objects =
          [i \in 1..Len(json.objects) |-> normalizeObject(json.objects[i], w, h)]]

\* a variant of normalizeData that divides both axes by the width
normalizeDataByWidth(json, w, h) ==
  IF ~Truthy(w) \/ ~Truthy(h) THEN json
  ELSE [json EXCEPT !.objects =
          [i \in 1..Len(json.objects) |-> normalizeObject(json.objects[i], w, w)]]

\* json is a snapshot [objects |-> <<...>>]; w and h are the width and height
\* props the callback closes over
normalizeData(json, w, h) ==
  IF ~Truthy(w) \/ ~Truthy(h) THEN json
  ELSE [json EXCEPT !.objects =
          [i \in 1..Len(json.objects) |-> normalizeObject(json.objects[i], w, h)]]

denormalizeObject(obj, targetWidth, targetHeight) ==
  [obj EXCEPT
    !.left = JsMul(obj.left, targetWidth),
    !.top = JsMul(obj.top, targetHeight),
    !.scaleX = One,
    !.scaleY = One,
    !.width = IF Truthy(obj.width) THEN JsMul(obj.width, targetWidth) ELSE @,
    !.height = IF Truthy(obj.height) THEN JsMul(obj.height, targetHeight) ELSE @,
    !.fontSize = IF Truthy(obj.fontSize) THEN JsMul(obj.fontSize, targetHeight) ELSE @,
    !.x1 = IF Defined(obj.x1) THEN JsMul(obj.x1, targetWidth) ELSE @,
    !.y1 = IF Defined(obj.y1) THEN JsMul(obj.y1, targetHeight) ELSE @,
    !.x2 = IF Defined(obj.x2) THEN JsMul(obj.x2, targetWidth) ELSE @,
    !.y2 = IF Defined(obj.y2) THEN JsMul(obj.y2, targetHeight) ELSE @,
    !.strokeWidth = IF Truthy(obj.strokeWidth) THEN JsMul(obj.strokeWidth, targetWidth) ELSE @,
    !.radius = IF Truthy(obj.radius) THEN JsMul(obj.radius, targetWidth) ELSE @]

\* a variant of denormalizeData that exchanges the two target dimensions
denormalizeDataSwapped(json, targetWidth, targetHeight) ==
  IF ~Truthy(targetWidth) \/ ~Truthy(targetHeight) THEN json
  ELSE [json EXCEPT !.objects =
          [i \in 1..Len(json.objects) |->
             denormalizeObject(json.objects[i], targetHeight, targetWidth)]]

denormalizeData(json, targetWidth, targetHeight) ==
  IF ~Truthy(targetWidth) \/ ~Truthy(targetHeight) THEN json
  ELSE [json EXCEPT !.objects =
          [i \in 1..Len(json.objects) |->
             denormalizeObject(json.objects[i], targetWidth, targetHeight)]]

----------------------------------------------------------------------------
(* Page Canvas Session: one AnnotationCanvas component instance.            *)

MaxObjs == 1        \* objects a construction may bring the scene to
MaxScene == 2       \* objects a deserialization may bring the scene to
MaxHist == 3        \* history entries a push may bring the stack to
MaxPending == 1     \* deserializations in flight

NoPoint == <<Undef, Undef>>
Pt(x, y) == <<Num(x), Num(y)>>

RemoveAt(seq, i) == [k \in 1..(Len(seq) - 1) |-> IF k < i THEN seq[k] ELSE seq[k + 1]]
Last(seq) == seq[Len(seq)]

\* canvas.toJSON(): the serialized objects of the canvas
toJSON(objs) == [objects |-> objs]

\* No construction, text edit or interactive transform is in progress: the
\* toolbar buttons and the zoom controls are used between gestures.
Quiet == ~isDrawing /\ tempIdx = 0 /\ editTimer = 0 /\ editing = 0 /\ transforming = 0

\* what saveToHistory hands to onCanvasChange for an entry at the time the
\* entry enters the stack (lines 312-315): its normalized form at the width
\* and height of that time; the entries the stack already held keep theirs
Remembered ==
  payloads' =
    IF history' = history THEN payloads
    ELSE [k \in 1..Len(history') |->
            IF k <= Len(history) /\ history'[k] = history[k]
              THEN payloads[k]
              ELSE normalizeData(history'[k], width, height)]

\* the callbacks as the parent sees them: the value last passed to
\* onHistoryChange, and the state update of handleHistoryChange and of
\* handleCanvasChange (the owner's only) that makes it render again
Delivered ==
  /\ canUndo' = IF histCb' = <<>> THEN canUndo ELSE histCb'[Len(histCb')]
  /\ renderDue' = (renderDue \/ histCb' # <<>> \/ (emitted' # <<>> /\ ~readOnly))
  /\ Remembered

\* a variant of saveToHistory that pushes the snapshot and tells the parent
\* nothing about the scene
saveToHistorySilent(objs) ==
  IF ~mounted
    THEN /\ UNCHANGED history
         /\ histCb' = <<>>
         /\ emitted' = <<>>
    ELSE LET json == toJSON(objs) IN
         /\ history' = Append(history, json)
         /\ histCb' = <<Len(history') > 1>>
         /\ emitted' = <<>>

\* saveToHistory(), run on a canvas that holds objs
saveToHistory(objs) ==
  IF ~mounted
    THEN /\ UNCHANGED history
         /\ histCb' = <<>>
         /\ emitted' = <<>>
    ELSE LET json == toJSON(objs) IN
         /\ history' = Append(history, json)
         /\ histCb' = <<Len(history') > 1>>
         /\ emitted' = <<normalizeData(json, width, height)>>

\* the active objects after canvas.remove() of the object at index i: fabric
\* drops a removed object from the selection, and the objects above it move
\* down by one
dropFrom(sel, i) == { IF k > i THEN k - 1 ELSE k : k \in sel \ {i} }

\* The state of the refs that the toolbar commands and the effects leave alone
ToolIdle ==
  UNCHANGED <<activeTool, isDrawing, startPoint, tempIdx, drawPoints, lastPointer,
              justExitedTextEdit, selection, editTimer, editing, transforming>>

\* a variant of undo whose guard lets the last entry go: popping it leaves
\* no entry to restore, and the read of previousState.objects throws after
\* the stack was popped and the canvas cleared
undoBelowFloor ==
  /\ Quiet
  /\ IF ~mounted \/ Len(history) < 1
       THEN /\ lastOp' = "undo:noop"
            /\ emitted' = <<>>
            /\ histCb' = <<>>
            /\ UNCHANGED <<scene, history, pending>>
       ELSE LET popped == SubSeq(history, 1, Len(history) - 1)
            IN  /\ history' = popped
                /\ scene' = <<>>
                /\ IF popped = <<>>
                     THEN /\ lastOp' = "undo:threw"
                          /\ emitted' = <<>>
                          /\ histCb' = <<>>
                          /\ UNCHANGED pending
                     ELSE LET objects == popped[Len(popped)].objects
                          IN  /\ Len(objects) > 0 => Len(pending) < MaxPending
                              /\ lastOp' = IF Len(objects) > 0 THEN "undo"
                                                               ELSE "undo:toEmpty"
                              /\ pending' = IF Len(objects) > 0
                                              THEN Append(pending, [kind |-> "undo",
                                                                    objects |-> objects])
                                              ELSE pending
                              /\ histCb' = <<Len(popped) > 1>>
                              /\ emitted' = <<normalizeData(popped[Len(popped)],
                                                            width, height)>>
  /\ mark' = <<>>
  /\ ToolIdle
  /\ UNCHANGED <<mounted, width, height, prevDimensions>>
  /\ active' = IF lastOp' = "undo:noop" THEN active ELSE {}
  /\ Delivered
  /\ UNCHANGED ovars

\* a variant of previousStateOf that goes back to the first entry
firstStateOf(stack) == stack[1]

\* the entry undo() restores: the top of the stack after the pop (line 116)
previousStateOf(stack) == Last(stack)

\* undo() of useImperativeHandle (lines 111-132)
undo ==
  /\ Quiet
  /\ IF ~mounted \/ Len(history) <= 1
       THEN /\ lastOp' = "undo:noop"
            /\ emitted' = <<>>
            /\ histCb' = <<>>
            /\ UNCHANGED <<scene, history, pending>>
       ELSE LET popped == SubSeq(history, 1, Len(history) - 1)
                previousState == previousStateOf(popped)
            IN  /\ Len(previousState.objects) > 0 => Len(pending) < MaxPending
                /\ lastOp' = IF Len(previousState.objects) > 0 THEN "undo"
                                                               ELSE "undo:toEmpty"
                /\ history' = popped
                /\ scene' = <<>>
                /\ pending' = IF Len(previousState.objects) > 0
                                THEN Append(pending, [kind |-> "undo",
                                                      objects |-> previousState.objects])
                                ELSE pending
                /\ histCb' = <<Len(popped) > 1>>
                /\ emitted' = <<normalizeData(previousState, width, height)>>
  /\ mark' = IF mark # <<>> /\ mark[1].op = "clear" /\ lastOp = "clear"
               THEN <<[mark[1] EXCEPT !.op = "clear+undo"]>>
               ELSE <<>>
  /\ ToolIdle
  /\ UNCHANGED <<mounted, width, height, prevDimensions>>
  /\ active' = IF lastOp' = "undo:noop" THEN active ELSE {}
  /\ Delivered
  /\ UNCHANGED ovars

\* clear() of useImperativeHandle (lines 133-142)
clear ==
  /\ Quiet
  /\ IF ~mounted
       THEN /\ lastOp' = "clear:noop"
            /\ emitted' = <<>>
            /\ histCb' = <<>>
            /\ mark' = <<>>
            /\ UNCHANGED <<scene, history>>
       ELSE /\ Len(history) < MaxHist
            /\ lastOp' = "clear"
            /\ scene' = <<>>
            /\ saveToHistory(<<>>)
            /\ mark' = <<[op |-> "clear", scene |-> scene, history |-> history]>>
  /\ ToolIdle
  /\ UNCHANGED <<mounted, width, height, prevDimensions, pending>>
  /\ active' = IF mounted THEN {} ELSE active
  /\ Delivered
  /\ UNCHANGED ovars

\* The .then() callbacks of fabric.util.enlivenObjects(): the initial load
\* (lines 208-220), a resize (lines 280-291) and undo (lines 119-126).
\* Promises of different calls may resolve in either order.
enlivenDone(k) ==
  LET p == pending[k]
      added == scene \o p.objects
      ofLastUndo == lastOp = "undo" /\ k = Len(pending)
  IN  /\ pending' = RemoveAt(pending, k)
      /\ emitted' = <<>>
      /\ CASE p.kind = "load" ->
                /\ Len(added) <= MaxScene
                /\ scene' = added
                /\ history' = <<toJSON(added)>>
                /\ histCb' = IF mounted THEN <<Len(history') > 1>> ELSE <<>>
                /\ lastOp' = "enliven:load"
                /\ mark' = <<>>
           [] p.kind = "resize" ->
                /\ Len(added) <= MaxScene
                /\ scene' = added
                /\ history' = <<toJSON(added)>>
                /\ histCb' = <<>>
                /\ lastOp' = "enliven:resize"
                /\ mark' = <<>>
           [] p.kind = "undo" ->
                IF ~mounted
                  THEN /\ UNCHANGED <<scene, history>>
                       /\ histCb' = <<>>
                       /\ lastOp' = "enliven:stale"
                       /\ mark' = <<>>
                  ELSE /\ Len(added) <= MaxScene
                       /\ scene' = added
                       /\ UNCHANGED history
                       /\ histCb' = <<>>
                       /\ lastOp' = IF ofLastUndo THEN "enliven:undo"
                                                  ELSE "enliven:undo:late"
                       /\ mark' = IF ofLastUndo /\ mark # <<>> /\ mark[1].op = "clear+undo"
                                    THEN <<[mark[1] EXCEPT !.op = "clear+undo:restored"]>>
                                    ELSE <<>>
      /\ ToolIdle
      /\ UNCHANGED <<mounted, width, height, prevDimensions>>
      /\ UNCHANGED active
      /\ Delivered
      /\ UNCHANGED ovars

\* The inline normalization of the resize effect (lines 249-271)
resizeNormalizeObject(obj, prev) ==
  LET effectiveScaleX == OrOne(obj.scaleX)
      effectiveScaleY == OrOne(obj.scaleY)
  IN  [obj EXCEPT
        !.left = JsDiv(obj.left, prev[1]),
        !.top = JsDiv(obj.top, prev[2]),
        !.scaleX = One,
        !.scaleY = One,
        !.width = IF Truthy(obj.width)
                    THEN JsDiv(JsMul(obj.width, effectiveScaleX), prev[1]) ELSE @,
        !.height = IF Truthy(obj.height)
                    THEN JsDiv(JsMul(obj.height, effectiveScaleY), prev[2]) ELSE @,
        !.fontSize = IF Truthy(obj.fontSize)
                    THEN JsDiv(JsMul(obj.fontSize, effectiveScaleY), prev[2]) ELSE @,
        !.strokeWidth = IF Truthy(obj.strokeWidth)
                    THEN JsDiv(JsMul(obj.strokeWidth, effectiveScaleX), prev[1]) ELSE @,
        !.radius = IF Truthy(obj.radius)
                    THEN JsDiv(JsMul(obj.radius, effectiveScaleX), prev[1]) ELSE @]

\* The effect on [width, height] (lines 236-304), run when the props change
resize(w, h) ==
  /\ Quiet
  /\ mounted
  /\ <<w, h>> # <<width, height>>
  /\ width' = w
  /\ height' = h
  /\ IF ~Truthy(w) \/ ~Truthy(h)
       THEN /\ lastOp' = "resize:skip"
            /\ UNCHANGED <<scene, pending, prevDimensions>>
       ELSE /\ prevDimensions' = <<w, h>>
            /\ IF /\ prevDimensions # <<w, h>>
                  /\ JsGt(prevDimensions[1], Zero) /\ JsGt(prevDimensions[2], Zero)
                  /\ Len(scene) > 0
                 THEN LET normalized ==
                            [objects |-> [i \in 1..Len(scene) |->
                                            resizeNormalizeObject(scene[i], prevDimensions)]]
                          denormalized == denormalizeData(normalized, w, h)
                      IN  /\ Len(pending) < MaxPending
                          /\ scene' = <<>>
                          /\ pending' = Append(pending, [kind |-> "resize",
                                                         objects |-> denormalized.objects])
                          /\ lastOp' = "resize:reload"
                 ELSE /\ UNCHANGED <<scene, pending>>
                      /\ lastOp' = "resize"
  /\ emitted' = <<>>
  /\ histCb' = <<>>
  /\ mark' = <<>>
  /\ ToolIdle
  /\ UNCHANGED <<mounted, history>>
  /\ active' = IF lastOp' = "resize:reload" THEN {} ELSE active
  /\ Delivered
  /\ UNCHANGED ovars

\* The cleanups of the mount effects (lines 32-34 and 226-229)
unmount ==
  /\ mounted
  /\ mounted' = FALSE
  /\ lastOp' = "unmount"
  /\ emitted' = <<>>
  /\ histCb' = <<>>
  /\ mark' = <<>>
  /\ ToolIdle
  /\ UNCHANGED <<width, height, prevDimensions, scene, history, pending>>
  /\ active' = {}
  /\ Delivered
  /\ UNCHANGED ovars

----------------------------------------------------------------------------
(* Tool State Machine: the canvas event handlers (lines 320-698)            *)

MaxDrawPoints == 2  \* points of a freehand stroke

textWidth == 300
fontSize == 18
headLength == 15
strokeWidth == 2
minArrowLength == 25
minRectSize == 10
minPathSize == 10

Half(k) == Rat(k, 2)
Clamp(v, lo, hi) == JsMax(lo, JsMin(v, hi))

\* Text content is a sequence of characters; trim() strips blanks at both ends
RECURSIVE TrimLeft(_)
TrimLeft(t) == IF t # <<>> /\ Head(t) = " " THEN TrimLeft(Tail(t)) ELSE t
RECURSIVE TrimRight(_)
TrimRight(t) ==
  IF t # <<>> /\ t[Len(t)] = " " THEN TrimRight(SubSeq(t, 1, Len(t) - 1)) ELSE t
\* a variant of trim that strips nothing
noTrim(t) == t

trim(t) == TrimRight(TrimLeft(t))

RECURSIVE MinOf(_, _)
MinOf(pts, c) ==
  IF Len(pts) = 1 THEN pts[1][c] ELSE JsMin(pts[1][c], MinOf(Tail(pts), c))
RECURSIVE MaxOf(_, _)
MaxOf(pts, c) ==
  IF Len(pts) = 1 THEN pts[1][c] ELSE JsMax(pts[1][c], MaxOf(Tail(pts), c))

\* new fabric.Textbox('', {...}) of lines 362-373.  The height of the empty
\* one-line box is fabric's: font size times its line-height multiplier.
newTextbox(clampedX, y) ==
  MkObj("textbox",
        [NoGeom EXCEPT !.left = clampedX, !.top = y, !.width = Num(textWidth),
                       !.height = JsMul(Num(fontSize), Rat(113, 100)),
                       !.fontSize = Num(fontSize), !.scaleX = One, !.scaleY = One,
                       !.strokeWidth = One],
        <<>>, activeColor, <<>>, <<>>)

\* new fabric.Path(pathData, {...}) of lines 431-446: the polyline through
\* the collected points; fabric sizes the object to the extent of the points.
newPath(points) ==
  MkObj("path",
        [NoGeom EXCEPT !.left = MinOf(points, 1), !.top = MinOf(points, 2),
                       !.width = JsSub(MaxOf(points, 1), MinOf(points, 1)),
                       !.height = JsSub(MaxOf(points, 2), MinOf(points, 2)),
                       !.scaleX = One, !.scaleY = One,
                       !.strokeWidth = Num(strokeWidth)],
        <<>>, activeColor, <<>>, points)

\* The arrow preview of lines 453-480: a group of a line from start to the
\* x-clamped pointer and a triangular head centred on that end.  The rotation
\* of the head is not modelled; the group is sized to the line and to the
\* square of side headLength around its end.
newArrow(start, pointer) ==
  LET clampedEndX == JsMax(Half(headLength),
                           JsMin(pointer[1], JsSub(width, Half(headLength))))
      endY == pointer[2]
      line == MkObj("line",
                    [NoGeom EXCEPT !.x1 = start[1], !.y1 = start[2],
                                   !.x2 = clampedEndX, !.y2 = endY,
                                   !.strokeWidth = Num(strokeWidth)],
                    <<>>, activeColor, <<>>, <<>>)
      triangle == MkObj("triangle",
                    [NoGeom EXCEPT !.left = clampedEndX, !.top = endY,
                                   !.width = Num(headLength), !.height = Num(headLength)],
                    <<>>, activeColor, <<>>, <<>>)
      minX == JsMin(start[1], JsSub(clampedEndX, Half(headLength)))
      maxX == JsMax(start[1], JsAdd(clampedEndX, Half(headLength)))
      minY == JsMin(start[2], JsSub(endY, Half(headLength)))
      maxY == JsMax(start[2], JsAdd(endY, Half(headLength)))
  IN  MkObj("group",
            [NoGeom EXCEPT !.left = minX, !.top = minY,
                           !.width = JsSub(maxX, minX), !.height = JsSub(maxY, minY),
                           !.scaleX = One, !.scaleY = One, !.strokeWidth = Zero],
            <<>>, activeColor, <<line, triangle>>, <<>>)

\* The box preview of lines 486-511
newRect(start, pointer) ==
  LET clampedStartX == JsMax(Half(strokeWidth),
                             JsMin(start[1], JsSub(width, Half(strokeWidth))))
      clampedPointerX == JsMax(Half(strokeWidth),
                               JsMin(pointer[1], JsSub(width, Half(strokeWidth))))
      left == JsMin(clampedStartX, clampedPointerX)
      top == JsMin(start[2], pointer[2])
      rectWidth == JsAbs(JsSub(clampedPointerX, clampedStartX))
      rectHeight == JsAbs(JsSub(pointer[2], start[2]))
  IN  MkObj("rect",
            [NoGeom EXCEPT !.left = left, !.top = top,
                           !.width = OrOne(rectWidth), !.height = OrOne(rectHeight),
                           !.scaleX = One, !.scaleY = One,
                           !.strokeWidth = Num(strokeWidth)],
            <<>>, activeColor, <<>>, <<>>)

\* obj.getBoundingRect() of an unrotated object with origin left/top: fabric
\* counts the stroke in the size of an object (after the scale when the
\* stroke is uniform, as for the boxes of line 504).
getBoundingRect(obj) ==
  LET sx == OrOne(obj.scaleX)
      sy == OrOne(obj.scaleY)
  IN  [left |-> obj.left, top |-> obj.top,
       width |-> IF obj.type = "rect"
                   THEN JsAdd(JsMul(obj.width, sx), obj.strokeWidth)
                   ELSE JsMul(JsAdd(obj.width, obj.strokeWidth), sx),
       height |-> IF obj.type = "rect"
                   THEN JsAdd(JsMul(obj.height, sy), obj.strokeWidth)
                   ELSE JsMul(JsAdd(obj.height, obj.strokeWidth), sy)]

SessionUnchanged == UNCHANGED <<mounted, width, height, prevDimensions, pending>>

\* the prop activeTool changes; the effect re-registers the handlers
setTool(t) ==
  /\ mounted
  /\ Quiet
  /\ t # activeTool
  /\ activeTool' = t
  /\ lastOp' = "setTool"
  /\ emitted' = <<>>
  /\ histCb' = <<>>
  /\ mark' = <<>>
  /\ UNCHANGED <<scene, history, isDrawing, startPoint, tempIdx, drawPoints,
                 lastPointer, justExitedTextEdit, selection, editTimer, editing,
                 transforming>>
  /\ SessionUnchanged
  /\ UNCHANGED active
  /\ Delivered
  /\ UNCHANGED ovars

\* a variant of hitReturns that lets a pointer-down on an object through
hitReturnsForSelectOnly(hit) == activeTool = "select"

\* the two early returns of handleMouseDown (lines 329 and 332)
hitReturns(hit) == activeTool = "select" \/ hit

\* handleMouseDown (lines 325-406); hit is opt.target # null.  Fabric ends a
\* text edit before it delivers the pointer-down that deselects the textbox.
handleMouseDown(raw, hit) ==
  /\ mounted
  /\ Quiet
  /\ hit => Len(scene) > 0
  /\ emitted' = <<>>
  /\ histCb' = <<>>
  /\ IF hitReturns(hit)
       THEN /\ lastOp' = "mouseDown:ignored"
            /\ mark' = <<>>
            /\ UNCHANGED <<scene, isDrawing, startPoint, drawPoints,
                           justExitedTextEdit, selection, editTimer>>
       ELSE LET pointer == <<Clamp(raw[1], Zero, width), Clamp(raw[2], Zero, height)>>
            IN  /\ startPoint' = pointer
                /\ IF activeTool = "text"
                     THEN IF justExitedTextEdit
                            THEN /\ justExitedTextEdit' = FALSE
                                 /\ isDrawing' = FALSE
                                 /\ selection' = TRUE
                                 /\ lastOp' = "mouseDown:consumed"
                                 /\ mark' = <<>>
                                 /\ UNCHANGED <<scene, drawPoints, editTimer>>
                            ELSE LET clampedX ==
                                       JsMax(Zero, JsMin(pointer[1],
                                                         JsSub(width, Num(textWidth))))
                                 IN  /\ Len(scene) < MaxObjs
                                     /\ scene' = Append(scene, newTextbox(clampedX, pointer[2]))
                                     /\ editTimer' = Len(scene')
                                     /\ isDrawing' = FALSE
                                     /\ selection' = FALSE
                                     /\ lastOp' = "mouseDown:text"
                                     /\ mark' = <<[op |-> "text", scene |-> scene,
                                                    history |-> history]>>
                                     /\ UNCHANGED <<drawPoints, justExitedTextEdit>>
                     ELSE /\ Len(scene) < MaxObjs
                          /\ isDrawing' = TRUE
                          /\ selection' = FALSE
                          /\ drawPoints' = IF activeTool = "draw" THEN <<pointer>>
                                                                  ELSE drawPoints
                          /\ lastOp' = "mouseDown:start"
                          /\ mark' = <<[op |-> "draw", scene |-> scene,
                                         history |-> history]>>
                          /\ UNCHANGED <<scene, justExitedTextEdit, editTimer>>
  /\ lastPointer' = IF isDrawing' THEN raw ELSE NoPoint
  /\ UNCHANGED <<history, activeTool, tempIdx, editing, transforming>>
  /\ SessionUnchanged
  /\ active' = IF hit THEN active
              ELSE IF lastOp' = "mouseDown:text" THEN {Len(scene')} ELSE {}
  /\ Delivered
  /\ lastHit' = hit
  /\ UNCHANGED <<gvars, dvars, activeColor>>

\* the setTimeout callback of lines 390-397: text.enterEditing()
enterEditing ==
  /\ editTimer # 0
  /\ editing' = editTimer
  /\ editTimer' = 0
  /\ lastOp' = "enterEditing"
  /\ emitted' = <<>>
  /\ histCb' = <<>>
  /\ UNCHANGED <<scene, history, activeTool, isDrawing, startPoint, tempIdx, drawPoints,
                 lastPointer, justExitedTextEdit, selection, transforming, mark>>
  /\ SessionUnchanged
  /\ UNCHANGED active
  /\ Delivered
  /\ UNCHANGED ovars

\* a pointer-move that leaves the preview of the move before on the canvas
keepPreview(objs, idx) == objs

\* canvas.remove(tempObjectRef.current) of handleMouseMove (lines 422-424),
\* before the new preview is built
withoutPreview(objs, idx) == IF idx # 0 THEN RemoveAt(objs, idx) ELSE objs

\* handleMouseMove (lines 408-519); the early returns of lines 409-410 are
\* its guard
handleMouseMove(raw) ==
  /\ mounted
  /\ isDrawing /\ startPoint # NoPoint
  /\ activeTool # "text"
  /\ emitted' = <<>>
  /\ histCb' = <<>>
  /\ LET pointer == <<Clamp(raw[1], Zero, width), Clamp(raw[2], Zero, height)>>
         start == startPoint
         kept == withoutPreview(scene, tempIdx)
     IN  /\ lastOp' = "mouseMove"
         /\ tempIdx' = Len(kept) + 1
         /\ CASE activeTool = "draw" ->
                   /\ Len(drawPoints) < MaxDrawPoints
                   /\ drawPoints' = Append(drawPoints, pointer)
                   /\ scene' = Append(kept, newPath(drawPoints'))
              [] activeTool = "arrow" ->
                   /\ scene' = Append(kept, newArrow(start, pointer))
                   /\ UNCHANGED drawPoints
              [] activeTool = "box" ->
                   /\ scene' = Append(kept, newRect(start, pointer))
                   /\ UNCHANGED drawPoints
  /\ lastPointer' = raw
  /\ UNCHANGED <<history, activeTool, isDrawing, startPoint, justExitedTextEdit,
                 selection, editTimer, editing, transforming, mark>>
  /\ SessionUnchanged
  /\ active' = {}
  /\ Delivered
  /\ UNCHANGED ovars

\* the rejection tests of handleMouseUp (lines 536-578)
arrowTooShort(startPt, endPoint) ==
  LET dx == JsSub(endPoint[1], startPt[1])
      dy == JsSub(endPoint[2], startPt[2])
  IN  JsLt(JsAdd(JsMul(dx, dx), JsMul(dy, dy)), Num(minArrowLength * minArrowLength))

\* a variant of rectTooSmall that rejects on either dimension
rectTooSmallEither(obj) ==
  JsLt(obj.width, Num(minRectSize)) \/ JsLt(obj.height, Num(minRectSize))

rectTooSmall(obj) ==
  JsLt(obj.width, Num(minRectSize)) /\ JsLt(obj.height, Num(minRectSize))

pathTooSmall(obj) ==
  LET bounds == getBoundingRect(obj)
  IN  JsLt(bounds.width, Num(minPathSize)) /\ JsLt(bounds.height, Num(minPathSize))

\* handleMouseUp (lines 521-593); the early return of line 522 is its guard.
\* The pointer goes up where the last event of the gesture left it.
handleMouseUp(raw) ==
  /\ mounted
  /\ isDrawing
  /\ raw = lastPointer
  /\ lastPointer' = NoPoint
  /\ isDrawing' = FALSE
  /\ startPoint' = NoPoint
  /\ drawPoints' = <<>>
  /\ selection' = TRUE
  /\ tempIdx' = 0
  /\ IF tempIdx = 0
       THEN /\ lastOp' = "mouseUp:nothing"
            /\ emitted' = <<>>
            /\ histCb' = <<>>
            /\ UNCHANGED <<scene, history>>
       ELSE LET obj == scene[tempIdx]
                endPoint == <<Clamp(raw[1], Zero, width), Clamp(raw[2], Zero, height)>>
                rejected ==
                  \/ /\ obj.type = "group"
                     /\ startPoint # NoPoint
                     /\ arrowTooShort(startPoint, endPoint)
                  \/ obj.type = "rect" /\ rectTooSmall(obj)
                  \/ obj.type = "path" /\ pathTooSmall(obj)
            IN  IF rejected
                  THEN /\ scene' = RemoveAt(scene, tempIdx)
                       /\ lastOp' = "mouseUp:rejected"
                       /\ emitted' = <<>>
                       /\ histCb' = <<>>
                       /\ UNCHANGED history
                  ELSE /\ Len(history) < MaxHist
                       /\ lastOp' = "mouseUp:commit"
                       /\ UNCHANGED scene
                       /\ saveToHistory(scene)
  /\ mark' = <<>>
  /\ UNCHANGED <<activeTool, justExitedTextEdit, editTimer, editing, transforming>>
  /\ SessionUnchanged
  /\ active' = IF lastOp' = "mouseUp:commit" THEN {} ELSE active
  /\ Delivered
  /\ UNCHANGED ovars

\* typing in the textbox under edit (fabric's own handling of the keyboard)
textInput(t) ==
  /\ mounted
  /\ editing # 0
  /\ scene[editing].text # t
  /\ scene' = [scene EXCEPT ![editing].text = t]
  /\ lastOp' = "textInput"
  /\ emitted' = <<>>
  /\ histCb' = <<>>
  /\ UNCHANGED <<history, activeTool, isDrawing, startPoint, tempIdx, drawPoints,
                 lastPointer, justExitedTextEdit, selection, editTimer, editing,
                 transforming, mark>>
  /\ SessionUnchanged
  /\ UNCHANGED active
  /\ Delivered
  /\ UNCHANGED ovars

\* a committed textbox (editable: true, line 369) is opened again for editing
textReopen(i) ==
  /\ mounted
  /\ Quiet
  /\ scene[i].type = "textbox"
  /\ editing' = i
  /\ lastOp' = "textReopen"
  /\ emitted' = <<>>
  /\ histCb' = <<>>
  /\ mark' = <<>>
  /\ UNCHANGED <<scene, history, activeTool, isDrawing, startPoint, tempIdx, drawPoints,
                 lastPointer, justExitedTextEdit, selection, editTimer, transforming>>
  /\ SessionUnchanged
  /\ active' = {i}
  /\ Delivered
  /\ UNCHANGED ovars

\* a flag armed only by an exit that kept the text
flagWhenSaved(saved) == saved

\* justExitedTextEditRef.current = true (line 685), after either branch
flagAfterExit(saved) == TRUE

\* handleTextEditEnd (lines 675-687), on text:editing:exited
handleTextEditEnd ==
  /\ mounted
  /\ editing # 0
  /\ LET textbox == scene[editing]
     IN  IF textbox.text = <<>> \/ trim(textbox.text) = <<>>
           THEN /\ scene' = RemoveAt(scene, editing)
                /\ lastOp' = "textEditEnd:removed"
                /\ emitted' = <<>>
                /\ histCb' = <<>>
                /\ UNCHANGED history
           ELSE /\ Len(history) < MaxHist
                /\ lastOp' = "textEditEnd:saved"
                /\ UNCHANGED scene
                /\ saveToHistory(scene)
  /\ justExitedTextEdit' = flagAfterExit(lastOp' = "textEditEnd:saved")
  /\ editing' = 0
  /\ UNCHANGED <<activeTool, isDrawing, startPoint, tempIdx, drawPoints, lastPointer,
                 selection, editTimer, transforming, mark>>
  /\ SessionUnchanged
  /\ active' = IF lastOp' = "textEditEnd:removed" THEN dropFrom(active, editing)
                                                 ELSE active
  /\ Delivered
  /\ UNCHANGED ovars

----------------------------------------------------------------------------
(* Constraint Enforcer (lines 600-669)                                      *)

\* the four edge corrections, all computed from the one bounding rectangle
\* taken on entry (lines 602-619 and 647-662)
shiftInside(obj) ==
  LET boundingRect == getBoundingRect(obj)
      right == JsAdd(boundingRect.left, boundingRect.width)
      bottom == JsAdd(boundingRect.top, boundingRect.height)
      left1 == IF JsLt(boundingRect.left, Zero)
                 THEN JsSub(obj.left, boundingRect.left) ELSE obj.left
      left2 == IF JsGt(right, width) THEN JsSub(left1, JsSub(right, width)) ELSE left1
      top1 == IF JsLt(boundingRect.top, Zero)
                THEN JsSub(obj.top, boundingRect.top) ELSE obj.top
      top2 == IF JsGt(bottom, height) THEN JsSub(top1, JsSub(bottom, height)) ELSE top1
  IN  [obj EXCEPT !.left = left2, !.top = top2]

\* handleObjectMoving (lines 600-622), applied to the object as fabric moved it
handleObjectMoving(obj) == shiftInside(obj)

\* handleObjectScaling (lines 626-668), applied to the object as fabric scaled
\* it.  maxScaleX and maxScaleY (lines 637-644) are computed and never used.
handleObjectScaling(obj) == shiftInside(obj)

TransformReady(i) ==
  /\ mounted
  /\ ~isDrawing /\ tempIdx = 0 /\ editTimer = 0 /\ editing = 0
  /\ transforming \in {0, i}

TransformFrame ==
  /\ emitted' = <<>>
  /\ histCb' = <<>>
  /\ mark' = <<>>
  /\ UNCHANGED <<history, activeTool, isDrawing, startPoint, tempIdx, drawPoints,
                 lastPointer, justExitedTextEdit, selection, editTimer, editing>>
  /\ SessionUnchanged
  /\ Delivered
  /\ UNCHANGED ovars

\* object:moving: fabric has put object i at pos
objectMoving(i, pos) ==
  /\ TransformReady(i)
  /\ LET proposed == [scene[i] EXCEPT !.left = pos[1], !.top = pos[2]]
     IN  scene' = [scene EXCEPT ![i] = handleObjectMoving(proposed)]
  /\ transforming' = i
  /\ lastOp' = "objectMoving"
  /\ active' = {i}
  /\ TransformFrame

\* object:scaling: fabric has given object i the scale factors f, from the
\* handle at its bottom-right corner (the top-left corner stays in place)
objectScaling(i, f) ==
  /\ TransformReady(i)
  /\ LET proposed == [scene[i] EXCEPT !.scaleX = f[1], !.scaleY = f[2]]
     IN  scene' = [scene EXCEPT ![i] = handleObjectScaling(proposed)]
  /\ transforming' = i
  /\ lastOp' = "objectScaling"
  /\ active' = {i}
  /\ TransformFrame

\* object:modified (line 672): the drag has ended
objectModified ==
  /\ mounted
  /\ transforming # 0
  /\ Len(history) < MaxHist
  /\ transforming' = 0
  /\ lastOp' = "objectModified"
  /\ mark' = <<>>
  /\ saveToHistory(scene)
  /\ UNCHANGED <<scene, activeTool, isDrawing, startPoint, tempIdx, drawPoints,
                 lastPointer, justExitedTextEdit, selection, editTimer, editing>>
  /\ SessionUnchanged
  /\ UNCHANGED active
  /\ Delivered
  /\ UNCHANGED ovars

----------------------------------------------------------------------------
(* Selection, colour and keyboard: the colour effect (lines 700-732), the   *)
(* Delete-key effect (lines 735-760) and the renders of the parent          *)

\* the colours of the toolbar
Colors == {"red", "blue"}

\* a variant of without that removes the lowest of the selected objects only
withoutLowest(objs, sel) ==
  RemoveAt(objs, CHOOSE k \in sel : \A m \in sel : k <= m)

\* objs without the objects whose index is in sel
without(objs, sel) ==
  LET F[k \in 0..Len(objs)] ==
        IF k = 0 THEN <<>>
        ELSE IF k \in sel THEN F[k - 1] ELSE Append(F[k - 1], objs[k])
  IN  F[Len(objs)]

\* the forEach body of lines 708-727: the stroke of a line, a box or a path,
\* the fill of a head or a text
recolor(obj, color) ==
  CASE obj.type = "group" ->
         [obj EXCEPT !.objects =
            [k \in 1..Len(obj.objects) |->
               IF obj.objects[k].type \in {"line", "triangle"}
                 THEN [obj.objects[k] EXCEPT !.color = color]
                 ELSE obj.objects[k]]]
    [] obj.type \in {"rect", "textbox", "path"} -> [obj EXCEPT !.color = color]
    [] OTHER -> obj

recolored(objs, sel, color) ==
  [i \in 1..Len(objs) |-> IF i \in sel THEN recolor(objs[i], color) ELSE objs[i]]

\* fabric makes sel the active objects: a click on an object, or a drag over
\* several when canvas.selection allows it; the objects of a read-only
\* canvas are not selectable (lines 210-213, 282-285)
select(sel) ==
  /\ mounted
  /\ Quiet
  /\ ~readOnly
  /\ sel \subseteq 1..Len(scene)
  /\ sel # active
  /\ Cardinality(sel) > 1 => selection
  /\ active' = sel
  /\ lastOp' = "select"
  /\ emitted' = <<>>
  /\ histCb' = <<>>
  /\ mark' = <<>>
  /\ UNCHANGED <<scene, history>>
  /\ ToolIdle
  /\ SessionUnchanged
  /\ Delivered
  /\ UNCHANGED ovars

\* the body of the colour effect (lines 701-731), run with activeColor = color
colorEffect(color) ==
  IF ~mounted \/ readOnly \/ active = {}
    THEN /\ UNCHANGED <<scene, history>>
         /\ emitted' = <<>>
         /\ histCb' = <<>>
    ELSE /\ Len(history) < MaxHist
         /\ scene' = recolored(scene, active, color)
         /\ saveToHistory(scene')

\* what a render leaves of the parent's pending updates: the ones the effects
\* of this render have made
AfterRender ==
  /\ canUndo' = IF histCb' = <<>> THEN canUndo ELSE histCb'[Len(histCb')]
  /\ renderDue' = (histCb' # <<>> \/ (emitted' # <<>> /\ ~readOnly))
  /\ Remembered

\* Toolbar onColorChange (App.jsx line 247): the parent renders with the new
\* activeColor and the colour effect runs
colorChange(c) ==
  /\ mounted
  /\ Quiet
  /\ c # activeColor
  /\ activeColor' = c
  /\ colorEffect(c)
  /\ lastOp' = IF history' # history THEN "colorChange:recolored" ELSE "colorChange:none"
  /\ mark' = IF history' # history
               THEN <<[op |-> "color", scene |-> scene, history |-> history]>>
               ELSE <<>>
  /\ UNCHANGED active
  /\ ToolIdle
  /\ SessionUnchanged
  /\ AfterRender
  /\ UNCHANGED <<gvars, dvars, lastHit>>

\* The parent renders after a state update of handleCanvasChange or
\* handleHistoryChange (App.jsx lines 135-144).  renderAnnotations builds new
\* onCanvasChange and onHistoryChange closures (App.jsx lines 182-184), so
\* saveToHistory is a new function (line 317) and the effects that depend on
\* it run again: the handlers are registered anew and the colour effect
\* (dependencies at line 732) runs with the colour as it is.
parentRender ==
  /\ mounted
  /\ renderDue
  /\ colorEffect(activeColor)
  /\ lastOp' = IF history' # history THEN "render:recolored" ELSE "render"
  /\ mark' = IF mark # <<>> /\ mark[1].op = "color" THEN mark ELSE <<>>
  /\ UNCHANGED active
  /\ ToolIdle
  /\ SessionUnchanged
  /\ AfterRender
  /\ UNCHANGED ovars

\* handleKeyDown of the Delete-key effect (lines 739-756), for Delete or
\* Backspace; the listener exists on an editable canvas only (line 736)
deleteKey ==
  /\ mounted
  /\ ~isDrawing /\ tempIdx = 0 /\ editTimer = 0 /\ transforming = 0
  /\ IF readOnly \/ editing # 0 \/ active = {}
       THEN /\ lastOp' = "deleteKey:none"
            /\ emitted' = <<>>
            /\ histCb' = <<>>
            /\ UNCHANGED <<scene, history, active>>
       ELSE /\ Len(history) < MaxHist
            /\ lastOp' = "deleteKey:removed"
            /\ scene' = without(scene, active)
            /\ active' = {}
            /\ saveToHistory(scene')
  /\ mark' = <<>>
  /\ ToolIdle
  /\ SessionUnchanged
  /\ Delivered
  /\ UNCHANGED ovars

\* a variant of handlersRegistered that registers the handlers whatever the
\* readOnly prop
handlersAlways == TRUE

\* line 321: the effect that registers the canvas handlers returns at once
\* on a read-only canvas
handlersRegistered == ~readOnly

\* lines 210-213 and 282-285: the objects of a read-only canvas take no events
evented == ~readOnly

\* an event of the canvas that no handler of the component listens to
unhandled(op) ==
  /\ mounted
  /\ lastOp' = op
  /\ emitted' = <<>>
  /\ histCb' = <<>>
  /\ mark' = <<>>
  /\ UNCHANGED <<scene, history, active>>
  /\ ToolIdle
  /\ SessionUnchanged
  /\ Delivered
  /\ UNCHANGED ovars

\* the keys and the elements a keydown event of the window may carry
Keys == {"Delete", "Backspace", "a"}
Tags == {"BODY", "INPUT", "TEXTAREA"}

\* keydown on the window (lines 739-756): e.key and e.target.tagName.  Fabric
\* edits a text through a textarea of its own, which is the target of the
\* keys typed during an edit.
keyDown(key, tag) ==
  /\ editing # 0 => tag = "TEXTAREA"
  /\ IF tag \in {"TEXTAREA", "INPUT"} \/ key \notin {"Delete", "Backspace"}
       THEN unhandled("keyDown:ignored")
       ELSE deleteKey

\* mouse:down, mouse:move and mouse:up as fabric fires them
mouseDownEvent(raw, hit) ==
  IF handlersRegistered THEN handleMouseDown(raw, hit /\ evented)
                        ELSE unhandled("mouseDown:unhandled")

mouseMoveEvent(raw) ==
  IF handlersRegistered THEN handleMouseMove(raw) ELSE unhandled("mouseMove:unhandled")

mouseUpEvent(raw) ==
  IF handlersRegistered THEN handleMouseUp(raw) ELSE unhandled("mouseUp:unhandled")

\* mouse:move and mouse:up on an editable canvas, the early returns of lines
\* 409-410 and 522 included
pointerMove(raw) ==
  IF isDrawing /\ startPoint # NoPoint /\ activeTool # "text"
    THEN handleMouseMove(raw)
    ELSE unhandled("mouseMove:ignored")

pointerUp(raw) ==
  IF isDrawing THEN handleMouseUp(raw) ELSE unhandled("mouseUp:ignored")

\* a drag of object i or of one of its handles, and its end
movingEvent(i, pos) ==
  IF evented THEN objectMoving(i, pos) ELSE unhandled("objectMoving:none")

scalingEvent(i, f) ==
  IF evented THEN objectScaling(i, f) ELSE unhandled("objectScaling:none")

modifiedEvent ==
  IF handlersRegistered THEN objectModified ELSE unhandled("objectModified:unhandled")

\* text:editing:exited
textExitEvent ==
  IF handlersRegistered THEN handleTextEditEnd ELSE unhandled("textEditEnd:unhandled")

----------------------------------------------------------------------------
(* The session after the mount effects (lines 190-231), and its steps       *)

NoData == [objects |-> <<>>]

\* a stored payload: one text, in fractions of the page
StoredText ==
  MkObj("textbox",
        [NoGeom EXCEPT !.left = Rat(1, 10), !.top = Rat(1, 10),
                       !.width = Rat(1, 2), !.height = Rat(1, 5),
                       !.fontSize = Rat(1, 10),
                       !.scaleX = One, !.scaleY = One, !.strokeWidth = Rat(1, 200)],
        <<"a">>, "red", <<>>, <<>>)

InitialData == {NoData, [objects |-> <<StoredText>>]}

SessDims == {<<Num(200), Num(150)>>, <<Num(400), Num(300)>>}

Tools == {"select", "arrow", "box", "draw", "text"}
Texts == {<<>>, <<"a">>}

SessPoints == {Pt(20, 5)}

\* no document is open; ro is the readOnly prop the page canvas is given
DocIdleAs(ro) ==
  /\ docId = 1
  /\ docOpen = FALSE
  /\ loading = FALSE
  /\ readOnly = ro
  /\ annotationsMap = <<>>
  /\ canUndoMap = <<>>
  /\ activePage = 1
  /\ pageHist = <<>>
  /\ saveRef = <<>>
  /\ timers = <<>>
  /\ saves = <<>>
  /\ reports = {}
  /\ loaded = <<>>
  /\ lastDown = 0
  /\ docOp = [op |-> "idle", page |-> 0]

DocIdle == DocIdleAs(FALSE)

GeomIdle ==
  /\ gIn = NoData
  /\ gDims = [w1 |-> One, h1 |-> One, w2 |-> One, h2 |-> One]
  /\ gStage = "idle"
  /\ gVal = NoData

\* the mount of a canvas whose readOnly prop is ro
mountAs(initialData, dims, ro) ==
  /\ mounted = TRUE
  /\ width = dims[1]
  /\ height = dims[2]
  /\ prevDimensions = dims
  /\ scene = <<>>
  /\ activeTool = "arrow"
  /\ isDrawing = FALSE
  /\ startPoint = NoPoint
  /\ tempIdx = 0
  /\ drawPoints = <<>>
  /\ lastPointer = NoPoint
  /\ justExitedTextEdit = FALSE
  /\ selection = ~ro
  /\ editTimer = 0
  /\ editing = 0
  /\ transforming = 0
  /\ emitted = <<>>
  /\ mark = <<>>
  /\ canUndo = FALSE
  /\ lastOp = "mount"
  /\ active = {}
  /\ activeColor = "red"
  /\ lastHit = FALSE
  /\ IF Len(initialData.objects) > 0
       THEN /\ history = <<>>
            /\ pending = <<[kind |-> "load",
                            objects |-> denormalizeData(initialData, dims[1], dims[2]).objects]>>
            /\ histCb = <<>>
       ELSE /\ history = <<toJSON(<<>>)>>
            /\ pending = <<>>
            /\ histCb = <<FALSE>>
  /\ renderDue = (histCb # <<>>)
  /\ payloads = [k \in 1..Len(history) |-> normalizeData(history[k], dims[1], dims[2])]

\* the mount of an editable canvas
mount(initialData, dims) == mountAs(initialData, dims, FALSE)

Init ==
  /\ \E initialData \in InitialData : mount(initialData, <<Num(200), Num(150)>>)
  /\ GeomIdle
  /\ DocIdle

\* The history of one page: toolbar commands, zoom, deserializations and the
\* edits that commit, on a small set of pointer positions
Next ==
  \/ undo
  \/ clear
  \/ \E k \in 1..Len(pending) : enlivenDone(k)
  \/ \E t \in {"arrow", "text"} : setTool(t)
  \/ \E p \in SessPoints, hit \in BOOLEAN : handleMouseDown(p, hit)
  \/ enterEditing
  \/ \E p \in SessPoints : handleMouseMove(p)
  \/ \E p \in SessPoints : handleMouseUp(p)
  \/ \E t \in Texts : textInput(t)
  \/ \E i \in 1..Len(scene) : textReopen(i)
  \/ handleTextEditEnd

Spec == Init /\ [][Next]_vars

----------------------------------------------------------------------------
(* The tools on an empty page: gestures over pointer positions that fall    *)
(* on both sides of the rejection thresholds, at the canvas edges and       *)
(* outside the canvas.                                                      *)

ToolPoints == {Pt(0, 0), Pt(5, 5), Pt(10, 5), Pt(20, 5), Pt(30, 5), Pt(0, 20),
               Pt(-20, 170)}
ToolTexts == {<<>>, <<" ">>, <<"a">>}

ToolInit ==
  /\ mount(NoData, <<Num(200), Num(150)>>)
  /\ GeomIdle
  /\ DocIdle

ToolNext ==
  \/ \E t \in Tools : setTool(t)
  \/ \E p \in ToolPoints, hit \in BOOLEAN : handleMouseDown(p, hit)
  \/ enterEditing
  \/ \E p \in ToolPoints : handleMouseMove(p)
  \/ \E p \in ToolPoints : handleMouseUp(p)
  \/ \E t \in ToolTexts : textInput(t)
  \/ handleTextEditEnd

SpecTool == ToolInit /\ [][ToolNext]_vars

\* The same session with every pointer-move and pointer-up the browser may
\* deliver, those outside a gesture included
HitNext ==
  \/ \E t \in Tools : setTool(t)
  \/ \E p \in ToolPoints, hit \in BOOLEAN : handleMouseDown(p, hit)
  \/ enterEditing
  \/ \E p \in ToolPoints : pointerMove(p)
  \/ \E p \in ToolPoints : pointerUp(p)
  \/ \E t \in ToolTexts : textInput(t)
  \/ handleTextEditEnd

SpecHit == ToolInit /\ [][HitNext]_vars

----------------------------------------------------------------------------
(* Interactive moves and scalings of the objects of a loaded page           *)

\* a stored payload: one box, in fractions of the page
StoredRect ==
  MkObj("rect",
        [NoGeom EXCEPT !.left = Rat(1, 10), !.top = Rat(1, 10),
                       !.width = Rat(3, 10), !.height = Rat(2, 5),
                       !.scaleX = One, !.scaleY = One, !.strokeWidth = Rat(1, 100)],
        <<>>, "red", <<>>, <<>>)

EnforceData == {[objects |-> <<StoredRect>>], [objects |-> <<StoredText>>]}

MoveTargets == {Pt(-20, 10), Pt(60, 103)}
ScaleFactors == {<<Num(2), Num(2)>>, <<Rat(1, 2), Rat(1, 2)>>, <<Num(4), One>>}

EnforceInit ==
  /\ \E initialData \in EnforceData : mount(initialData, <<Num(200), Num(150)>>)
  /\ GeomIdle
  /\ DocIdle

EnforceNext ==
  \/ \E k \in 1..Len(pending) : enlivenDone(k)
  \/ \E i \in 1..Len(scene), pos \in MoveTargets : objectMoving(i, pos)
  \/ \E i \in 1..Len(scene), f \in ScaleFactors : objectScaling(i, f)
  \/ objectModified

SpecEnforce == EnforceInit /\ [][EnforceNext]_vars

----------------------------------------------------------------------------
(* Zoom changes and teardown of a page: the resize effect (lines 236-304),  *)
(* the cleanups of the mount effects, the toolbar commands and a drag.      *)
(* The zoom only goes down, which bounds the number of resizes.             *)

\* the pixel sizes of the page at the zoom levels below the first one, and a
\* page that has no size
ResizeDims == {<<Num(100), Num(75)>>, <<Num(50), Rat(75, 2)>>, <<Zero, Zero>>}

DragTargets == {Pt(60, 40)}

ResizeInit ==
  /\ \E initialData \in InitialData : mount(initialData, <<Num(200), Num(150)>>)
  /\ GeomIdle
  /\ DocIdle

ResizeNext ==
  \/ undo
  \/ clear
  \/ \E k \in 1..Len(pending) : enlivenDone(k)
  \/ \E dims \in ResizeDims : JsLt(dims[1], width) /\ resize(dims[1], dims[2])
  \/ unmount
  \/ \E i \in 1..Len(scene), pos \in DragTargets : objectMoving(i, pos)
  \/ objectModified

SpecResize == ResizeInit /\ [][ResizeNext]_vars

\* a stored line that is an object of the page itself, not the child of an
\* arrow: the line coordinates the normalizer handles at lines 90-93
StoredLine ==
  MkObj("line",
        [NoGeom EXCEPT !.left = Rat(1, 10), !.top = Rat(1, 10),
                       !.width = Rat(3, 10), !.height = Zero,
                       !.x1 = Rat(-3, 20), !.y1 = Zero, !.x2 = Rat(3, 20), !.y2 = Zero,
                       !.scaleX = One, !.scaleY = One, !.strokeWidth = Rat(1, 100)],
        <<>>, "red", <<>>, <<>>)

LineData == {[objects |-> <<StoredLine>>], [objects |-> <<StoredText, StoredLine>>]}

\* Resizes of a page that holds such a line
LinesInit ==
  /\ \E initialData \in LineData : mount(initialData, <<Num(200), Num(150)>>)
  /\ GeomIdle
  /\ DocIdle

LinesNext ==
  \/ \E k \in 1..Len(pending) : enlivenDone(k)
  \/ \E dims \in ResizeDims : JsLt(dims[1], width) /\ resize(dims[1], dims[2])
  \/ \E i \in 1..Len(scene), pos \in DragTargets : objectMoving(i, pos)
  \/ objectModified
  \/ undo

SpecLines == LinesInit /\ [][LinesNext]_vars

\* Scalings committed and undone on a page that has a size and on a page whose
\* size has become unavailable
ScaleSteps == {<<Num(2), Num(2)>>, <<Rat(1, 2), One>>}

NoSize == <<Zero, Zero>>

ScaleNext ==
  \/ \E k \in 1..Len(pending) : enlivenDone(k)
  \/ \E i \in 1..Len(scene), f \in ScaleSteps : objectScaling(i, f)
  \/ objectModified
  \/ undo
  \/ resize(NoSize[1], NoSize[2])

SpecScale == EnforceInit /\ [][ScaleNext]_vars

\* Recolouring a selection: stored pages of two objects, the selections fabric
\* can make of them, the colours of the toolbar and the renders of the parent
StoredPath ==
  MkObj("path",
        [NoGeom EXCEPT !.left = Rat(1, 2), !.top = Rat(1, 2),
                       !.width = Rat(1, 10), !.height = Rat(1, 10),
                       !.scaleX = One, !.scaleY = One, !.strokeWidth = Rat(1, 100)],
        <<>>, "red", <<>>, <<Pt(100, 75), Pt(120, 90)>>)

StoredArrow ==
  MkObj("group",
        [NoGeom EXCEPT !.left = Rat(1, 5), !.top = Rat(1, 5),
                       !.width = Rat(1, 4), !.height = Rat(1, 10),
                       !.scaleX = One, !.scaleY = One, !.strokeWidth = Zero],
        <<>>, "red",
        <<MkObj("line", [NoGeom EXCEPT !.x1 = Num(-25), !.y1 = Zero,
                                       !.x2 = Num(25), !.y2 = Zero,
                                       !.strokeWidth = Num(strokeWidth)],
                <<>>, "red", <<>>, <<>>),
          MkObj("triangle", [NoGeom EXCEPT !.left = Num(25), !.top = Zero,
                                           !.width = Num(headLength),
                                           !.height = Num(headLength)],
                <<>>, "red", <<>>, <<>>)>>,
        <<>>)

ColorData == {[objects |-> <<StoredRect, StoredText>>],
              [objects |-> <<StoredArrow, StoredPath>>]}

ColorInit ==
  /\ \E initialData \in ColorData : mount(initialData, <<Num(200), Num(150)>>)
  /\ GeomIdle
  /\ DocIdle

ColorNext ==
  \/ \E k \in 1..Len(pending) : enlivenDone(k)
  \/ \E sel \in SUBSET (1..Len(scene)) : select(sel)
  \/ \E c \in Colors : colorChange(c)
  \/ parentRender
  \/ deleteKey

SpecColor == ColorInit /\ [][ColorNext]_vars

\* The keyboard on a page of two objects: selections, key events inside and
\* outside text fields, and the edit of a stored text
KeysNext ==
  \/ \E k \in 1..Len(pending) : enlivenDone(k)
  \/ \E sel \in SUBSET (1..Len(scene)) : select(sel)
  \/ \E key \in Keys, tag \in Tags : keyDown(key, tag)
  \/ \E i \in 1..Len(scene) : textReopen(i)
  \/ handleTextEditEnd

SpecKeys == ColorInit /\ [][KeysNext]_vars

\* The events of a page canvas, on a canvas of the owner and on a read-only
\* canvas (the readOnly prop does not change during a session)
ReadOnlyInit ==
  \E ro \in BOOLEAN, initialData \in InitialData :
    /\ mountAs(initialData, <<Num(200), Num(150)>>, ro)
    /\ GeomIdle
    /\ DocIdleAs(ro)

ReadOnlyNext ==
  \/ \E k \in 1..Len(pending) : enlivenDone(k)
  \/ \E p \in SessPoints, hit \in BOOLEAN : mouseDownEvent(p, hit)
  \/ \E p \in DragTargets : mouseMoveEvent(p)
  \/ \E p \in SessPoints \cup DragTargets : mouseUpEvent(p)
  \/ \E i \in 1..Len(scene), pos \in DragTargets : movingEvent(i, pos)
  \/ \E i \in 1..Len(scene) : scalingEvent(i, <<Num(2), Num(2)>>)
  \/ modifiedEvent
  \/ \E i \in 1..Len(scene) : textReopen(i) /\ evented
  \/ textExitEvent
  \/ deleteKey
  \/ \E c \in Colors : colorChange(c)

SpecReadOnly == ReadOnlyInit /\ [][ReadOnlyNext]_vars

----------------------------------------------------------------------------
(* Harness for the Geometry Normalizer: the inputs are drawn in GeomInit    *)
(* and the functions are applied one call per step.                         *)

MaxGeomLen == 2

GeomDims == {<<Num(100), Num(100)>>, <<Num(200), Num(150)>>}

RectGeom(l, t, w, h, sx, sy) ==
  [NoGeom EXCEPT !.left = l, !.top = t, !.width = w, !.height = h,
                 !.scaleX = sx, !.scaleY = sy, !.strokeWidth = Num(2)]

GeomObjs ==
  { MkObj("rect", RectGeom(Num(l), Num(20), Num(50), Num(40), Num(sx), Num(sy)),
          "", "red", <<>>, <<>>) : l \in {0, 30}, sx \in {1, 2}, sy \in {1, 3} }
  \cup
  { MkObj("textbox", [RectGeom(Num(10), Num(10), Num(300), Num(20), Num(s), Num(s))
                        EXCEPT !.fontSize = Num(18), !.strokeWidth = Zero],
          "a", "red", <<>>, <<>>) : s \in {1, 2} }
  \cup
  { MkObj("line", [RectGeom(Num(5), Num(5), Num(30), Zero, One, One)
                     EXCEPT !.x1 = Num(-15), !.y1 = Zero, !.x2 = Num(15), !.y2 = Zero],
          "", "red", <<>>, <<>>),
    MkObj("circle", [RectGeom(Num(40), Num(40), Num(10), Num(10), One, One)
                       EXCEPT !.radius = Num(5)],
          "", "red", <<>>, <<>>),
    \* a stored object that lacks left and the scale factors
    MkObj("rect", [NoGeom EXCEPT !.top = Num(7), !.width = Num(12), !.height = Num(9)],
          "", "red", <<>>, <<>>) }

GeomScenes ==
  UNION { [1..n -> GeomObjs] : n \in 1..MaxGeomLen }

GeomInit ==
  /\ gIn \in { [objects |-> s] : s \in GeomScenes }
  /\ gDims \in { [w1 |-> a[1], h1 |-> a[2], w2 |-> b[1], h2 |-> b[2]] :
                   a \in GeomDims, b \in GeomDims }
  /\ gStage = "input"
  /\ gVal = gIn
  /\ mount(NoData, <<Num(200), Num(150)>>)
  /\ DocIdle

\* normalize(s, w1, h1)
ApplyNormalize ==
  /\ gStage = "input"
  /\ gVal' = normalizeData(gVal, gDims.w1, gDims.h1)
  /\ gStage' = "normalized"
  /\ UNCHANGED <<gIn, gDims>>
  /\ UNCHANGED <<svars, dvars>>

\* denormalize(normalize(s, w1, h1), w1, h1)
ApplyDenormalizeSame ==
  /\ gStage = "normalized"
  /\ gVal' = denormalizeData(gVal, gDims.w1, gDims.h1)
  /\ gStage' = "roundtrip"
  /\ UNCHANGED <<gIn, gDims>>
  /\ UNCHANGED <<svars, dvars>>

\* denormalize(normalize(s, w1, h1), w2, h2)
ApplyDenormalizeOther ==
  /\ gStage = "normalized"
  /\ gVal' = denormalizeData(gVal, gDims.w2, gDims.h2)
  /\ gStage' = "resized"
  /\ UNCHANGED <<gIn, gDims>>
  /\ UNCHANGED <<svars, dvars>>

\* normalize(denormalize(normalize(s, w1, h1), w2, h2), w1, h1)
ApplyRenormalizeFirst ==
  /\ gStage = "resized"
  /\ gVal' = normalizeData(gVal, gDims.w1, gDims.h1)
  /\ gStage' = "renormalizedFirst"
  /\ UNCHANGED <<gIn, gDims>>
  /\ UNCHANGED <<svars, dvars>>

\* normalize(denormalize(normalize(s, w1, h1), w2, h2), w2, h2)
ApplyRenormalizeSecond ==
  /\ gStage = "resized"
  /\ gVal' = normalizeData(gVal, gDims.w2, gDims.h2)
  /\ gStage' = "renormalizedSecond"
  /\ UNCHANGED <<gIn, gDims>>
  /\ UNCHANGED <<svars, dvars>>

GeomNext ==
  \/ ApplyNormalize
  \/ ApplyDenormalizeSame
  \/ ApplyDenormalizeOther
  \/ ApplyRenormalizeFirst
  \/ ApplyRenormalizeSecond

SpecGeom == GeomInit /\ [][GeomNext]_vars

\* the same calls with a width or a height that is zero or not given
MissingDims ==
  {<<Zero, Num(100)>>, <<Num(100), Zero>>, <<Undef, Num(100)>>, <<Num(100), Undef>>,
   <<Num(100), Num(100)>>}

GeomZeroInit ==
  /\ gIn \in { [objects |-> s] : s \in GeomScenes }
  /\ gDims \in { [w1 |-> a[1], h1 |-> a[2], w2 |-> b[1], h2 |-> b[2]] :
                   a \in MissingDims, b \in MissingDims }
  /\ gStage = "input"
  /\ gVal = gIn
  /\ mount(NoData, <<Num(200), Num(150)>>)
  /\ DocIdle

GeomZeroNext ==
  \/ ApplyNormalize
  \/ ApplyDenormalizeSame
  \/ ApplyDenormalizeOther

SpecGeomZero == GeomZeroInit /\ [][GeomZeroNext]_vars

----------------------------------------------------------------------------
(* Document Session: the DocumentPage component (frontend/src/App.jsx),     *)
(* its page canvases seen through their callbacks, and the debounced        *)
(* saves.  A payload is the annotation data of one page.  The model covers  *)
(* loads that succeed, and route changes made once the load has completed.  *)
MaxPage == 2
MaxSaves == 2
MaxBurst == 3
MaxPageHist == 4
MaxAnnots == 3

Pages == 1..MaxPage
DocIds == {1, 2}
Payloads == {[objects |-> <<StoredText>>]}
LoadPayloads == {[objects |-> <<StoredText>>], [objects |-> <<StoredRect>>]}

debounceWait == 500
\* the grain of time: timers are observed every half wait
tickStep == debounceWait \div 2

MapSet(map, k, v) == [x \in (DOMAIN map) \cup {k} |-> IF x = k THEN v ELSE map[x]]

\* one entry of the annotations a load returns
Annotation(p, d) == [page_number |-> p, annotation_data |-> d]

\* fetchData with a sign test that lets the legacy page 0 in
buildMapFromZero(annots) ==
  LET RECURSIVE build(_, _)
      build(map, i) ==
        IF i > Len(annots) THEN map
        ELSE build(IF annots[i].page_number >= 0
                     THEN MapSet(map, annots[i].page_number, annots[i].annotation_data)
                     ELSE map, i + 1)
  IN build(<<>>, 1)

\* the forEach of fetchData: map[a.page_number] = a.annotation_data, page 0 skipped
buildMap(annots) ==
  LET RECURSIVE build(_, _)
      build(map, i) ==
        IF i > Len(annots) THEN map
        ELSE build(IF annots[i].page_number > 0
                     THEN MapSet(map, annots[i].page_number, annots[i].annotation_data)
                     ELSE map, i + 1)
  IN build(<<>>, 1)

\* initialData={annotationsMap[pageNumber] || null}; a canvas given null is empty
initialDataOf(map, pageNumber) ==
  IF pageNumber \in DOMAIN map THEN map[pageNumber] ELSE NoData

\* canUndo={canUndoMap[activePage] || false}
toolbarCanUndo == IF activePage \in DOMAIN canUndoMap THEN canUndoMap[activePage] ELSE FALSE

\* one key for all the pages
sharedKey(pageNumber) == 1

\* saveFunctionsRef.current[pageNumber]: the functions are kept by page number
saveKey(pageNumber) == pageNumber

\* getSaveFunction: the function is created on first use and closes over id
\* and pageNumber; the value is saveFunctionsRef.current afterwards
getSaveFunction(pageNumber) ==
  IF saveKey(pageNumber) \in DOMAIN saveRef
    THEN saveRef
    ELSE MapSet(saveRef, saveKey(pageNumber), [id |-> docId, pageNumber |-> pageNumber])

\* the armed timer of the function now stored under key k (0: it has none)
armedTimer(k) ==
  LET S == {i \in 1..Len(timers) : timers[i].live /\ timers[i].key = k}
  IN IF S = {} THEN 0 ELSE CHOOSE i \in S : TRUE

\* a call that leaves the running timer as it is
noRearm(t) == t.remaining

\* debounce(fn, 500): every call restarts the wait
rearm(t) == debounceWait

\* a variant of debounced that runs the function with the arguments of the
\* first call of a burst
debouncedFirstArgs(ref, k, pageNumber, data) ==
  LET S == {j \in 1..Len(timers) : timers[j].key = k /\ timers[j].live}
      i == IF S = {} THEN 0 ELSE CHOOSE j \in S : TRUE
  IN
  IF i = 0
    THEN Append(timers, [fn |-> ref[k], key |-> k, live |-> TRUE,
                         remaining |-> debounceWait, lastArgs |-> data,
                         burst |-> <<[page |-> pageNumber, data |-> data]>>,
                         quiet |-> 0])
    ELSE [timers EXCEPT ![i] = [@ EXCEPT !.remaining = debounceWait,
                                         !.burst = Append(@, [page |-> pageNumber, data |-> data]),
                                         !.quiet = 0]]

\* a call of the debounced function stored under k: the arguments replace the
\* ones of the call before and the timer starts again.  burst and quiet
\* record the calls since the function last ran (the page of the canvas that
\* called and its payload) and the time since the last call.
debounced(ref, k, pageNumber, data) ==
  LET i == armedTimer(k) IN
  IF i = 0
    THEN Append(timers, [fn |-> ref[k], key |-> k, live |-> TRUE,
                         remaining |-> debounceWait, lastArgs |-> data,
                         burst |-> <<[page |-> pageNumber, data |-> data]>>,
                         quiet |-> 0])
    ELSE [timers EXCEPT ![i] = [@ EXCEPT !.remaining = rearm(timers[i]),
                                         !.lastArgs = data,
                                         !.burst = Append(@, [page |-> pageNumber, data |-> data]),
                                         !.quiet = 0]]

\* room for one more call of the function of pageNumber
SaveRoom(pageNumber) ==
  LET i == armedTimer(saveKey(pageNumber)) IN
  IF i = 0 THEN Len(saves) + Len(timers) < MaxSaves
           ELSE Len(timers[i].burst) < MaxBurst

handleCanvasChange(pageNumber, data) ==
  IF ~readOnly
    THEN LET ref == getSaveFunction(pageNumber) IN
         /\ saveRef' = ref
         /\ timers' = debounced(ref, saveKey(pageNumber), pageNumber, data)
         /\ annotationsMap' = MapSet(annotationsMap, pageNumber, data)
    ELSE UNCHANGED <<saveRef, timers, annotationsMap>>

handleHistoryChange(pageNumber, hasHistory) ==
  canUndoMap' = MapSet(canUndoMap, pageNumber, hasHistory)

CanvasIdle == UNCHANGED <<gvars, svars>>

\* the load of the document completes: the map is built, the viewer mounts a
\* canvas per page with its initial data, and each canvas reports its history
fetchData(annots, owner) ==
  /\ docOpen
  /\ loading
  /\ loading' = FALSE
  /\ readOnly' = ~owner
  /\ annotationsMap' = buildMap(annots)
  /\ pageHist' = [p \in Pages |-> <<initialDataOf(buildMap(annots), p)>>]
  /\ canUndoMap' = [p \in (DOMAIN canUndoMap) \cup Pages |-> IF p \in Pages THEN FALSE ELSE canUndoMap[p]]
  /\ loaded' = annots
  /\ docOp' = [op |-> "load", page |-> 0]
  /\ UNCHANGED <<docId, docOpen, activePage, saveRef, timers, saves, reports, lastDown>>
  /\ CanvasIdle

\* mouse:down on the canvas of page p.  The handlers are registered only when
\* the canvas is not read-only; onFocus is their first statement.
pointerDown(p) ==
  /\ docOpen
  /\ ~loading
  /\ lastDown' = p
  /\ activePage' = IF readOnly THEN activePage ELSE p
  /\ docOp' = [op |-> "pointerDown", page |-> p]
  /\ UNCHANGED <<docId, docOpen, loading, readOnly, annotationsMap, canUndoMap,
                 pageHist, saveRef, timers, saves, reports, loaded>>
  /\ CanvasIdle

\* saveToHistory on the canvas of page p, whose scene has become data
pageCommit(p, data) ==
  /\ docOpen
  /\ ~loading
  /\ ~readOnly
  /\ data # Last(pageHist[p])
  /\ Len(pageHist[p]) < MaxPageHist
  /\ SaveRoom(p)
  /\ pageHist' = [pageHist EXCEPT ![p] = Append(@, data)]
  /\ handleHistoryChange(p, Len(pageHist[p]) + 1 > 1)
  /\ handleCanvasChange(p, data)
  /\ docOp' = [op |-> "commit", page |-> p]
  /\ UNCHANGED <<docId, docOpen, loading, readOnly, activePage, saves, reports,
                 loaded, lastDown>>
  /\ CanvasIdle

\* the first page of the document, whatever page has the focus
firstPage == CHOOSE p \in Pages : \A q \in Pages : p <= q

\* canvasRefsMap.current[activePage]: the canvas Undo and Clear act on
commandTarget == activePage

\* the Undo button (disabled unless canUndo): undo() of the target's canvas
handleUndo ==
  /\ docOpen
  /\ ~loading
  /\ ~readOnly
  /\ toolbarCanUndo
  /\ LET p == commandTarget IN
     IF Len(pageHist[p]) <= 1
       THEN /\ docOp' = [op |-> "undo:noop", page |-> p]
            /\ UNCHANGED <<pageHist, canUndoMap, saveRef, timers, annotationsMap>>
       ELSE /\ SaveRoom(p)
            /\ pageHist' = [pageHist EXCEPT ![p] = RemoveAt(@, Len(@))]
            /\ handleHistoryChange(p, Len(pageHist[p]) - 1 > 1)
            /\ handleCanvasChange(p, pageHist[p][Len(pageHist[p]) - 1])
            /\ docOp' = [op |-> "undo", page |-> p]
  /\ UNCHANGED <<docId, docOpen, loading, readOnly, activePage, saves, reports,
                 loaded, lastDown>>
  /\ CanvasIdle

\* the Clear button, confirmed: clear() of the target's canvas
handleClear ==
  /\ docOpen
  /\ ~loading
  /\ ~readOnly
  /\ LET p == commandTarget IN
     /\ Len(pageHist[p]) < MaxPageHist
     /\ SaveRoom(p)
     /\ pageHist' = [pageHist EXCEPT ![p] = Append(@, NoData)]
     /\ handleHistoryChange(p, Len(pageHist[p]) + 1 > 1)
     /\ handleCanvasChange(p, NoData)
     /\ docOp' = [op |-> "clear", page |-> p]
  /\ UNCHANGED <<docId, docOpen, loading, readOnly, activePage, saves, reports,
                 loaded, lastDown>>
  /\ CanvasIdle

\* time passes; a timer that is due runs before more time passes
tick ==
  /\ timers # <<>>
  /\ \A i \in 1..Len(timers) : timers[i].remaining > 0
  /\ timers' = [i \in 1..Len(timers) |->
                  [timers[i] EXCEPT !.remaining = @ - tickStep,
                                    !.quiet = IF @ < debounceWait THEN @ + tickStep ELSE @]]
  /\ docOp' = [op |-> "tick", page |-> 0]
  /\ UNCHANGED <<docId, docOpen, loading, readOnly, annotationsMap, canUndoMap,
                 activePage, pageHist, saveRef, saves, reports, loaded, lastDown>>
  /\ CanvasIdle

\* a timer expires: saveAnnotations(id, pageNumber, data) with the closure's
\* id and pageNumber and the arguments of the last call
fire(i) ==
  /\ timers[i].remaining = 0
  /\ saves' = Append(saves, [id |-> timers[i].fn.id,
                             pageNumber |-> timers[i].fn.pageNumber,
                             data |-> timers[i].lastArgs,
                             outcome |-> "sent",
                             burst |-> timers[i].burst,
                             quiet |-> timers[i].quiet,
                             live |-> timers[i].live /\ docOpen])
  /\ timers' = RemoveAt(timers, i)
  /\ docOp' = [op |-> "save", page |-> timers[i].fn.pageNumber]
  /\ UNCHANGED <<docId, docOpen, loading, readOnly, annotationsMap, canUndoMap,
                 activePage, pageHist, saveRef, reports, loaded, lastDown>>
  /\ CanvasIdle

\* what the session reports when the promise of saveAnnotations rejects:
\* the promise is dropped by the debounced function, nothing handles it
onSaveRejected(i) == reports

\* the request of save i completes; saveAnnotations throws when !response.ok
saveSettles(i, ok) ==
  /\ saves[i].outcome = "sent"
  /\ saves' = [saves EXCEPT ![i].outcome = IF ok THEN "ok" ELSE "failed"]
  /\ reports' = IF ok THEN reports ELSE onSaveRejected(i)
  /\ docOp' = [op |-> IF ok THEN "saved" ELSE "saveFailed", page |-> saves[i].pageNumber]
  /\ UNCHANGED <<docId, docOpen, loading, readOnly, annotationsMap, canUndoMap,
                 activePage, pageHist, saveRef, timers, loaded, lastDown>>
  /\ CanvasIdle

\* the id of the route changes: saveFunctionsRef.current = {} and a new load
\* starts; the functions dropped from the ref keep their timers
navigate(d) ==
  /\ docOpen
  /\ ~loading
  /\ d # docId
  /\ docId' = d
  /\ saveRef' = <<>>
  /\ timers' = [i \in 1..Len(timers) |-> [timers[i] EXCEPT !.live = FALSE]]
  /\ loading' = TRUE
  /\ pageHist' = <<>>
  /\ docOp' = [op |-> "navigate", page |-> 0]
  /\ UNCHANGED <<docOpen, readOnly, annotationsMap, canUndoMap, activePage,
                 saves, reports, loaded, lastDown>>
  /\ CanvasIdle

\* DocumentPage unmounts; it has no cleanup for the debounced functions
closeDocument ==
  /\ docOpen
  /\ docOpen' = FALSE
  /\ pageHist' = <<>>
  /\ docOp' = [op |-> "close", page |-> 0]
  /\ UNCHANGED <<docId, loading, readOnly, annotationsMap, canUndoMap, activePage,
                 saveRef, timers, saves, reports, loaded, lastDown>>
  /\ CanvasIdle

\* DocumentPage after its first render: the load of document 1 is in flight
DocStart ==
  /\ docId = 1
  /\ docOpen = TRUE
  /\ loading = TRUE
  /\ readOnly = TRUE
  /\ annotationsMap = <<>>
  /\ canUndoMap = <<>>
  /\ activePage = 1
  /\ pageHist = <<>>
  /\ saveRef = <<>>
  /\ timers = <<>>
  /\ saves = <<>>
  /\ reports = {}
  /\ loaded = <<>>
  /\ lastDown = 0
  /\ docOp = [op |-> "idle", page |-> 0]

DocInit ==
  /\ DocStart
  /\ mount(NoData, <<Num(200), Num(150)>>)
  /\ GeomIdle

\* what the loads of the document session return
DocLoads == {<<>>, <<Annotation(1, [objects |-> <<StoredText>>])>>}

\* Focus and toolbar commands: loads as owner or as visitor, pointer-downs,
\* commits, Undo and Clear, and the saves they schedule
FocusNext ==
  \/ \E annots \in DocLoads, owner \in BOOLEAN : fetchData(annots, owner)
  \/ \E p \in Pages : pointerDown(p)
  \/ \E p \in Pages, data \in Payloads : pageCommit(p, data)
  \/ handleUndo
  \/ handleClear
  \/ tick
  \/ \E i \in 1..Len(timers) : fire(i)

SpecFocus == DocInit /\ [][FocusNext]_vars

\* the owner's session once an empty document has loaded
SaveInit ==
  /\ docId = 1
  /\ docOpen = TRUE
  /\ loading = FALSE
  /\ readOnly = FALSE
  /\ annotationsMap = buildMap(<<>>)
  /\ canUndoMap = [p \in Pages |-> FALSE]
  /\ activePage = 1
  /\ pageHist = [p \in Pages |-> <<NoData>>]
  /\ saveRef = <<>>
  /\ timers = <<>>
  /\ saves = <<>>
  /\ reports = {}
  /\ loaded = <<>>
  /\ lastDown = 0
  /\ docOp = [op |-> "load", page |-> 0]
  /\ mount(NoData, <<Num(200), Num(150)>>)
  /\ GeomIdle

\* Saves: edits on the pages, time, the requests and their outcomes, and
\* the two ways the session ends
SaveNext ==
  \/ \E p \in Pages, data \in Payloads : pageCommit(p, data)
  \/ handleClear
  \/ tick
  \/ \E i \in 1..Len(timers) : fire(i)
  \/ \E i \in 1..Len(saves), ok \in BOOLEAN : saveSettles(i, ok)
  \/ \E d \in DocIds : navigate(d)
  \/ closeDocument

SpecSave == SaveInit /\ [][SaveNext]_vars

\* The owner's session that stays mounted on its document: edits, Undo and
\* Clear on the pages, and time.  The browser's timers run: time passes while
\* a timer is armed, and a timer that is due fires.
LiveNext ==
  \/ \E p \in Pages : pointerDown(p)
  \/ \E p \in Pages, data \in Payloads : pageCommit(p, data)
  \/ handleUndo
  \/ handleClear
  \/ tick
  \/ \E i \in 1..Len(timers) : fire(i)

SpecSaveLive ==
  /\ SaveInit
  /\ [][LiveNext]_vars
  /\ WF_vars(tick)
  /\ WF_vars(\E i \in 1..Len(timers) : fire(i))

\* the documents whose user_id is the token stored in this browser
ownedDocs == {1}

\* a canvas of page p calls its onHistoryChange and onCanvasChange props with
\* data (App.jsx lines 182-184).  The canvases are on the screen once a
\* document has been loaded; after a change of the route id they stay there
\* with the document state of the load before, until the new load completes
\* (document and loading are not reset, lines 100-124), and the save function
\* they get is already the one of the new id (lines 91-98).  Before the first
\* load there is no canvas; the document state is null and readOnly holds.
delivered(p, data) ==
  /\ docOpen
  /\ ~(loading /\ readOnly)
  /\ SaveRoom(p)
  /\ handleHistoryChange(p, TRUE)
  /\ handleCanvasChange(p, data)
  /\ docOp' = [op |-> IF readOnly THEN "delivered:readOnly" ELSE "delivered", page |-> p]
  /\ UNCHANGED <<docId, docOpen, loading, readOnly, activePage, pageHist, saves, reports,
                 loaded, lastDown>>
  /\ CanvasIdle

\* Ownership: the user owns document 1 and visits document 2; loads, changes
\* of the route, changes delivered by the canvases, time and the saves
OwnerNext ==
  \/ \E annots \in DocLoads : fetchData(annots, docId \in ownedDocs)
  \/ \E d \in DocIds : navigate(d)
  \/ \E p \in Pages, data \in Payloads : delivered(p, data)
  \/ tick
  \/ \E i \in 1..Len(timers) : fire(i)

SpecOwner == DocInit /\ [][OwnerNext]_vars

\* the loads: the lists of at most MaxAnnots entries over the pages 0..MaxPage
\* that hold one entry per page number
AnnotationLists ==
  LET All == UNION { [1..n -> {Annotation(p, d) : p \in 0..MaxPage, d \in LoadPayloads}] :
                     n \in 0..MaxAnnots }
  IN { l \in All : \A i, j \in 1..Len(l) : i # j => l[i].page_number # l[j].page_number }

LoadNext ==
  \/ \E annots \in AnnotationLists, owner \in BOOLEAN : fetchData(annots, owner)
  \/ \E d \in DocIds : navigate(d)
  \/ closeDocument

SpecLoad == DocInit /\ [][LoadNext]_vars

----------------------------------------------------------------------------
(* Properties of the Geometry Normalizer                                    *)

\* every object of the scene has a position and unit scale factors
UnitScale(s) ==
  \A i \in 1..Len(s.objects) :
    /\ IsNum(s.objects[i].left) /\ IsNum(s.objects[i].top)
    /\ s.objects[i].scaleX = One /\ s.objects[i].scaleY = One

\* C5 as stated: denormalize(normalize(s, w, h), w, h) equals s for every
\* scene s, every geometric field and every scale factor included.
C5_RoundTripIsIdentity == gStage = "roundtrip" => gVal = gIn

\* C5, amended: denormalize(normalize(s, w, h), w, h) equals s when every
\* object of s has a position and scale factors 1; for any scene the result
\* has scale factors 1 and the width and height of s multiplied by the
\* scale factors s had.
C5_RoundTripBakesScale ==
  gStage = "roundtrip" =>
    /\ UnitScale(gIn) => gVal = gIn
    /\ Len(gVal.objects) = Len(gIn.objects)
    /\ \A i \in 1..Len(gIn.objects) :
         LET o == gIn.objects[i]
             r == gVal.objects[i]
         IN  /\ r.scaleX = One /\ r.scaleY = One
             /\ r.width = JsMul(o.width, OrOne(o.scaleX))
             /\ r.height = JsMul(o.height, OrOne(o.scaleY))
             /\ IsNum(o.left) => r.left = o.left
             /\ IsNum(o.top) => r.top = o.top

\* a scene of two unit-scale objects came back unchanged on a canvas whose
\* width and height differ
C5_Witness ==
  /\ gStage = "roundtrip"
  /\ gDims.w1 # gDims.h1
  /\ Len(gIn.objects) = 2
  /\ UnitScale(gIn)
  /\ gVal = gIn

\* C6 as stated: normalizing at (w1,h1), denormalizing at (w2,h2) and
\* normalizing again at (w1,h1) returns the payload of the first
\* normalization.
C6_RenormalizeAtFirstSize ==
  gStage = "renormalizedFirst" => gVal = normalizeData(gIn, gDims.w1, gDims.h1)

\* C6, amended: normalizing at (w1,h1), denormalizing at (w2,h2) and
\* normalizing again at (w2,h2), the size the scene now has, returns the
\* payload of the first normalization.
C6_RenormalizeAtNewSize ==
  gStage = "renormalizedSecond" => gVal = normalizeData(gIn, gDims.w1, gDims.h1)

\* a scaled object went through a change of size and came back as the
\* payload it had
C6_Witness ==
  /\ gStage = "renormalizedSecond"
  /\ <<gDims.w1, gDims.h1>> # <<gDims.w2, gDims.h2>>
  /\ \E i \in 1..Len(gIn.objects) : gIn.objects[i].scaleX = Num(2)
  /\ gVal = normalizeData(gIn, gDims.w1, gDims.h1)

----------------------------------------------------------------------------
(* Properties of the history stack and of the toolbar commands              *)

\* C1: at every moment of a session the history stack holds at least one
\* entry (the load/reset state at index 0), the time an initial payload is
\* still being deserialized included.
C1_HistoryNeverEmpty == Len(history) >= 1

\* C2: an undo on a stack of at most one entry changes nothing: the scene,
\* the stack and the pending restorations stay as they are and neither
\* callback fires.
C2_UndoAtFloorIsNoOp ==
  [][ (lastOp' \in {"undo:noop", "undo", "undo:toEmpty", "undo:threw"}
         /\ Len(history) <= 1)
      => /\ UNCHANGED <<scene, history, pending>>
         /\ emitted' = <<>>
         /\ histCb' = <<>> ]_vars

\* an undo was just refused on a one-entry stack over a scene that has objects
C2_Witness ==
  /\ lastOp = "undo:noop"
  /\ mounted
  /\ Len(history) = 1
  /\ Len(scene) > 0

\* C3: an undo on a stack of n > 1 entries removes exactly the last entry,
\* emits the normalized form of the new top entry, and once its restoration
\* has completed the scene holds the objects of that new top entry.
C3_UndoRestoresNewTop ==
  [][ /\ lastOp' \in {"undo", "undo:toEmpty"}
         => /\ Len(history) > 1
            /\ history' = SubSeq(history, 1, Len(history) - 1)
            /\ emitted' = <<normalizeData(history[Len(history) - 1], width, height)>>
            /\ Len(history[Len(history) - 1].objects) = 0 => scene' = <<>>
      /\ lastOp' = "enliven:undo"
         => /\ scene' = history[Len(history)].objects
            /\ history' = history ]_vars

\* an undo on a three-entry stack has completed and put objects back
C3_Witness ==
  /\ lastOp = "enliven:undo"
  /\ Len(history) = 2
  /\ Len(scene) > 0
  /\ scene = history[2].objects

\* C4: clear empties the scene and appends an empty entry to the stack, and
\* an undo right after it brings back the scene as it was before the clear.
C4_ClearThenUndoRestores ==
  mark # <<>> =>
    /\ mark[1].op = "clear"
         => /\ scene = <<>>
            /\ history = Append(mark[1].history, toJSON(<<>>))
    /\ (mark[1].op = "clear+undo" /\ lastOp = "undo:toEmpty") => scene = mark[1].scene
    /\ mark[1].op = "clear+undo:restored" => scene = mark[1].scene

----------------------------------------------------------------------------
(* Properties of the tools                                                  *)

\* the square of the distance between two points
DistSq(a, b) ==
  JsAdd(JsMul(JsSub(b[1], a[1]), JsSub(b[1], a[1])),
        JsMul(JsSub(b[2], a[2]), JsSub(b[2], a[2])))

\* the pointer position clamped to the canvas
OnCanvas(raw) == <<Clamp(raw[1], Zero, width), Clamp(raw[2], Zero, height)>>

\* this step is the pointer-up that ends a gesture with a preview of a type
PointerUpOn(types) ==
  /\ lastOp' \in {"mouseUp:rejected", "mouseUp:commit"}
  /\ tempIdx # 0
  /\ scene[tempIdx].type \in types
  /\ mark # <<>>
  /\ mark[1].op = "draw"

\* the step left the scene and the stack as they were before the pointer-down
GestureDiscarded ==
  /\ scene' = mark[1].scene
  /\ history' = mark[1].history
  /\ emitted' = <<>>

\* the step pushed one entry that holds the scene of before the pointer-down
\* and the preview
GestureCommitted ==
  /\ scene' = Append(mark[1].scene, scene[tempIdx])
  /\ history' = Append(mark[1].history, toJSON(scene'))

\* C7: an arrow gesture whose straight-line length is below 25 leaves no
\* object and pushes no entry; one of length 25 or more pushes exactly one
\* entry with exactly one more Arrow; hence no Arrow whose line is shorter
\* than 25 is ever committed.
C7_NoShortArrowCommitted ==
  [][ PointerUpOn({"group"}) =>
        LET lengthSq == DistSq(startPoint, OnCanvas(lastPointer))
            line == scene[tempIdx].objects[1]
            lineSq == DistSq(<<line.x1, line.y1>>, <<line.x2, line.y2>>)
            minSq == Num(minArrowLength * minArrowLength)
        IN  /\ JsLt(lengthSq, minSq) => GestureDiscarded
            /\ ~JsLt(lengthSq, minSq) => GestureCommitted
            /\ lastOp' = "mouseUp:commit" => ~JsLt(lineSq, minSq) ]_vars

\* C8 as stated: a box or stroke preview is discarded at pointer-up exactly
\* when the width and the height of its bounding box are both below 10, and
\* is committed with one new entry otherwise.
C8_DiscardedBySmallBoundingBox ==
  [][ PointerUpOn({"rect", "path"}) =>
        LET bounds == getBoundingRect(scene[tempIdx])
            small == /\ JsLt(bounds.width, Num(10))
                     /\ JsLt(bounds.height, Num(10))
        IN  /\ small => GestureDiscarded
            /\ ~small => GestureCommitted ]_vars

\* C8, amended: a stroke preview is discarded exactly when the width and the
\* height of its bounding box, stroke included, are both below 10; a box
\* preview is discarded exactly when the width and the height of the
\* rectangle itself, its 2-unit stroke not counted, are both below 10.
\* Otherwise the preview is committed with one new entry.
C8_DiscardedBySmallExtent ==
  [][ PointerUpOn({"rect", "path"}) =>
        LET obj == scene[tempIdx]
            bounds == getBoundingRect(obj)
            w == IF obj.type = "rect" THEN obj.width ELSE bounds.width
            h == IF obj.type = "rect" THEN obj.height ELSE bounds.height
            small == JsLt(w, Num(10)) /\ JsLt(h, Num(10))
        IN  /\ small => GestureDiscarded
            /\ ~small => GestureCommitted ]_vars

\* a box 19 wide and 5 high was committed as the second entry of the stack
C8_Witness ==
  /\ lastOp = "mouseUp:commit"
  /\ Len(scene) = 1
  /\ scene[1].type = "rect"
  /\ scene[1].width = Num(19) /\ scene[1].height = Num(5)
  /\ Len(history) = 2

\* the text is empty or holds blanks only
IsBlank(t) == \A i \in 1..Len(t) : t[i] = " "

\* C9: ending the edit session of a text made with the text tool while its
\* content is empty or blank leaves the scene as it was before the
\* pointer-down and pushes no history entry.
C9_BlankTextLeavesNoTrace ==
  [][ (/\ lastOp' \in {"textEditEnd:removed", "textEditEnd:saved"}
       /\ mark # <<>>
       /\ mark[1].op = "text"
       /\ IsBlank(scene[editing].text))
      => /\ scene' = mark[1].scene
         /\ history' = mark[1].history
         /\ emitted' = <<>>
         /\ histCb' = <<>> ]_vars

\* a text that held one blank was removed when its edit session ended
C9_Witness ==
  /\ lastOp = "textEditEnd:removed"
  /\ mark # <<>>
  /\ mark[1].op = "text"
  /\ scene = mark[1].scene
  /\ history = mark[1].history
  /\ justExitedTextEdit

----------------------------------------------------------------------------
(* Properties of the Constraint Enforcer                                    *)

\* the bounding box lies within [0, width] x [0, height]
InsideCanvas(b) ==
  /\ ~JsLt(b.left, Zero)
  /\ ~JsLt(b.top, Zero)
  /\ ~JsGt(JsAdd(b.left, b.width), width)
  /\ ~JsGt(JsAdd(b.top, b.height), height)

\* C10: after every object-moving or object-scaling step the bounding box of
\* the object lies within [0, width] x [0, height].
C10_TransformStaysInside ==
  (lastOp \in {"objectMoving", "objectScaling"} /\ transforming # 0)
    => InsideCanvas(getBoundingRect(scene[transforming]))

\* C11: whenever no gesture or text edit is under way, every object of the
\* scene (each one committed by a tool, a move or a scaling) has its bounding
\* box within [0, width] x [0, height].
C11_CommittedObjectsInside ==
  Quiet => \A i \in 1..Len(scene) : InsideCanvas(getBoundingRect(scene[i]))

----------------------------------------------------------------------------
(* Properties of the Document Session and of the debounced saves            *)

EditOps == {"commit", "undo", "clear"}

\* the step issued a save
SaveIssued == Len(saves') > Len(saves)

\* C12: the edits of one page that follow each other by less than the wait
\* produce exactly one save, with the payload of the last edit: an edit issues
\* no save, every armed timer is due exactly debounceWait after the last
\* edit, and the step that issues a save issues one, not before the page has
\* been quiet for the wait, with the payload of the last edit of the burst.
C12_BurstGivesOneSave ==
  [][ /\ docOp'.op \in EditOps => saves' = saves
      /\ \A i \in 1..Len(timers') :
           /\ timers'[i].burst # <<>>
           /\ timers'[i].remaining + timers'[i].quiet = debounceWait
      /\ SaveIssued =>
           /\ Len(saves') = Len(saves) + 1
           /\ Len(timers') = Len(timers) - 1
           /\ Last(saves').quiet >= debounceWait
           /\ Last(saves').data = Last(Last(saves').burst).data
    ]_vars

\* one save has been issued for a burst of three edits, and nothing is pending
C12_Witness ==
  /\ Len(saves) = 1
  /\ timers = <<>>
  /\ Len(saves[1].burst) >= 3

\* C13: an edit on page p leaves the pending save of every other page as it
\* was (timer and payload), and a save is issued with the number of the page
\* whose edits it carries and with the last payload of that page.
C13_PagesSaveApart ==
  [][ /\ docOp'.op \in EditOps =>
           \A i \in 1..Len(timers) :
             timers[i].fn.pageNumber # docOp'.page =>
               i <= Len(timers') /\ timers'[i] = timers[i]
      /\ SaveIssued =>
           LET s == Last(saves') IN
           /\ \A k \in 1..Len(s.burst) : s.burst[k].page = s.pageNumber
           /\ s.data = Last(s.burst).data
    ]_vars

\* two pages have a pending save; the older one was re-armed by a later edit
\* of its page while the other one kept running
C13_Witness ==
  /\ Len(timers) = 2
  /\ timers[1].fn.pageNumber # timers[2].fn.pageNumber
  /\ Len(timers[1].burst) >= 2
  /\ timers[1].remaining > timers[2].remaining

\* Undo and Clear act on the focused page and on no other page
CommandsActOnFocusedPage ==
  [][ docOp'.op \in {"undo", "undo:noop", "clear"} =>
        /\ docOp'.page = activePage
        /\ \A q \in Pages \ {activePage} : pageHist'[q] = pageHist[q]
    ]_vars

\* C16 as stated: the focused page is the page of the most recent
\* pointer-down in every session, and Undo and Clear change the focused page
\* only.
C16_FocusFollowsPointer ==
  /\ [](lastDown # 0 => activePage = lastDown)
  /\ CommandsActOnFocusedPage

\* C16: in a session that is not read-only the focused page is the page of
\* the most recent pointer-down, and Undo and Clear change the scene and the
\* history of the focused page only.
C16_FocusFollowsPointerWhenEditable ==
  /\ [](lastDown # 0 /\ ~readOnly => activePage = lastDown)
  /\ CommandsActOnFocusedPage

\* after a pointer-down on page 2, a command has changed page 2
C16_Witness ==
  /\ ~readOnly
  /\ lastDown = 2
  /\ docOp.op \in {"undo", "clear"}
  /\ docOp.page = 2

\* C18: every save is issued while the session that scheduled it is alive
\* (the document page mounted, the function still in the ref).
C18_NoSaveAfterTeardown ==
  \A i \in 1..Len(saves) : saves[i].live

\* C19: a save that has failed has been reported.
C19_FailedSaveIsReported ==
  \A i \in 1..Len(saves) : saves[i].outcome = "failed" => i \in reports

\* C20: once the load has completed the map holds exactly the loaded entries
\* whose page number is above 0, and the canvas of a page starts from the
\* entry of that page or, without one, empty: never from the entry of page 0.
C20_MapHoldsPagesAboveZero ==
  docOp.op = "load" =>
    /\ DOMAIN annotationsMap =
         {loaded[i].page_number : i \in 1..Len(loaded)} \ {0}
    /\ \A i \in 1..Len(loaded) :
         loaded[i].page_number > 0 =>
           annotationsMap[loaded[i].page_number] = loaded[i].annotation_data
    /\ \A p \in Pages :
         \/ \E i \in 1..Len(loaded) :
              loaded[i].page_number = p /\ pageHist[p] = <<loaded[i].annotation_data>>
         \/ /\ \A i \in 1..Len(loaded) : loaded[i].page_number # p
            /\ pageHist[p] = <<NoData>>

\* a load that returned an entry for page 0 and one for page 1 has completed
C20_Witness ==
  /\ docOp.op = "load"
  /\ \E i, j \in 1..Len(loaded) : loaded[i].page_number = 0 /\ loaded[j].page_number = 1

----------------------------------------------------------------------------
(* Properties of the resize, of the history-availability callback and of    *)
(* the teardown of a page                                                   *)

\* the step completed a resize that changed positive dimensions: the effect
\* ran to its end without reloading, or the reload it started has resolved
ResizeCompleted ==
  \/ /\ lastOp' = "resize"
     /\ prevDimensions' # prevDimensions
     /\ JsGt(prevDimensions[1], Zero) /\ JsGt(prevDimensions[2], Zero)
  \/ lastOp' = "enliven:resize"

\* C14: when a resize has completed, the history holds exactly one entry,
\* the snapshot of the live scene.
C14_ResizeResetsHistory ==
  [][ ResizeCompleted => Len(history') = 1 /\ history'[1] = toJSON(scene') ]_vars

\* C15: whenever the page is mounted and no deserialization is in flight, the
\* value last delivered through onHistoryChange is (history length > 1).
C15_CanUndoTracksHistory ==
  mounted /\ pending = <<>> => canUndo = (Len(history) > 1)

\* C17: a deserialization that resolves after the teardown of the page adds
\* no object, leaves the history as it is and calls nothing back.
C17_LateDeserializationDiscarded ==
  [][ (~mounted /\ Len(pending') < Len(pending)) =>
        /\ scene' = scene
        /\ history' = history
        /\ histCb' = <<>>
        /\ emitted' = <<>>
    ]_vars

----------------------------------------------------------------------------
(* Properties of the pointer gestures, of the text tool and of the commits  *)

TextExits == {"textEditEnd:saved", "textEditEnd:removed"}

\* C24: a pointer-down of the text tool on empty canvas is consumed without
\* creating a Text exactly when the event just before it was a text-edit-exit.
C24_ConsumedOnlyRightAfterExit ==
  [][ lastOp' \in {"mouseDown:consumed", "mouseDown:text"} =>
        ((lastOp' = "mouseDown:consumed") <=> (lastOp \in TextExits)) ]_vars

\* C25: the Text the text tool has just created lies horizontally within the
\* canvas: 0 <= left and left + its default width <= canvas width.
C25_NewTextFitsCanvasWidth ==
  (lastOp = "mouseDown:text" /\ editTimer # 0) =>
    /\ ~JsLt(scene[editTimer].left, Zero)
    /\ ~JsGt(JsAdd(scene[editTimer].left, scene[editTimer].width), width)

\* C26: whenever no construction, text edit or drag is under way (every
\* pointer-down has had its pointer-up), multi-select is enabled.
C26_MultiSelectBackAfterGesture == Quiet => selection

PointerDownOrMove ==
  {"mouseDown:ignored", "mouseDown:consumed", "mouseDown:text", "mouseDown:start",
   "mouseMove"}

\* C27: a pointer-down or pointer-move leaves the history as it is and emits
\* nothing, and while a construction is under way the scene is the scene of
\* before the pointer-down plus at most one preview; the pointer-up either
\* rejects the gesture and leaves no entry or commits one object, one entry
\* and one payload.
C27_OnePreviewNoEntry ==
  [][ /\ lastOp' \in PointerDownOrMove =>
           history' = history /\ emitted' = <<>> /\ histCb' = <<>>
      /\ isDrawing' =>
           /\ mark' # <<>>
           /\ Len(scene') <= Len(mark'[1].scene) + 1
           /\ SubSeq(scene', 1, Len(mark'[1].scene)) = mark'[1].scene
           /\ tempIdx' \in {0, Len(scene')}
      /\ lastOp' = "mouseMove" => Len(scene') = Len(mark'[1].scene) + 1
      /\ lastOp' = "mouseUp:rejected" =>
           history' = history /\ emitted' = <<>> /\ scene' = mark[1].scene
      /\ lastOp' = "mouseUp:commit" =>
           /\ history' = Append(history, toJSON(scene'))
           /\ Len(scene') = Len(mark[1].scene) + 1
           /\ Len(emitted') = 1
    ]_vars

\* a freehand stroke is under construction: its preview is the only object
\* added and the history is the one of before the pointer-down
C27_Witness ==
  /\ isDrawing
  /\ lastOp = "mouseMove"
  /\ activeTool = "draw"
  /\ tempIdx = Len(scene)
  /\ Len(scene) = Len(mark[1].scene) + 1
  /\ history = mark[1].history

Missing(w, h) == ~Truthy(w) \/ ~Truthy(h)

\* C22: normalize and denormalize return their input unchanged whenever the
\* width or the height they are given is zero or not available.
C22_MissingSizeReturnsInput ==
  [][ /\ (gStage' = "normalized" /\ Missing(gDims.w1, gDims.h1)) => gVal' = gVal
      /\ (gStage' = "roundtrip" /\ Missing(gDims.w1, gDims.h1)) => gVal' = gVal
      /\ (gStage' = "resized" /\ Missing(gDims.w2, gDims.h2)) => gVal' = gVal
    ]_vars

\* normalize was given a width and a zero height and returned a scene with a
\* scaled object as it was
C22_Witness ==
  /\ gStage = "normalized"
  /\ Truthy(gDims.w1)
  /\ gDims.h1 = Zero
  /\ gVal = gIn
  /\ \E i \in 1..Len(gIn.objects) : gIn.objects[i].scaleX = Num(2)

UnitScalePayload(json) ==
  \A i \in 1..Len(json.objects) :
    json.objects[i].scaleX = One /\ json.objects[i].scaleY = One

\* C21: every payload handed to the change callback has scaleX = scaleY = 1
\* on every object.
C21_EveryPayloadHasUnitScale ==
  \A k \in 1..Len(emitted) : UnitScalePayload(emitted[k])

\* C21, for a canvas whose width and height are both non-zero: every payload
\* has scaleX = scaleY = 1 on every object, and the payload of a commit holds
\* the sizes of the scene multiplied by its scale factors and divided by the
\* canvas extent.
C21_PayloadHasUnitScaleWhenSized ==
  (Truthy(width) /\ Truthy(height)) =>
    /\ \A k \in 1..Len(emitted) : UnitScalePayload(emitted[k])
    /\ (lastOp = "objectModified" /\ emitted # <<>>) =>
         \A i \in 1..Len(scene) :
           /\ emitted[1].objects[i].width =
                JsDiv(JsMul(scene[i].width, scene[i].scaleX), width)
           /\ emitted[1].objects[i].height =
                JsDiv(JsMul(scene[i].height, scene[i].scaleY), height)
           /\ emitted[1].objects[i].strokeWidth =
                JsDiv(JsMul(scene[i].strokeWidth, scene[i].scaleX), width)

\* an object left at twice its size has been committed on a sized canvas and
\* its payload carries the doubled width at scale 1
C21_Witness ==
  /\ lastOp = "objectModified"
  /\ Truthy(width)
  /\ Len(emitted) = 1
  /\ \E i \in 1..Len(scene) :
       /\ scene[i].scaleX = Num(2)
       /\ emitted[1].objects[i].scaleX = One
       /\ emitted[1].objects[i].width = JsDiv(JsMul(scene[i].width, Num(2)), width)

\* C23: on a read-only canvas no pointer-down, pointer-move, pointer-up,
\* object-moving, object-scaling, object-modified, text-edit-exit, Delete-key
\* or colour-change event changes the scene or the history, and none emits a
\* payload.  (The deserialization of the stored page is not such an event.)
C23_ReadOnlyEventsChangeNothing ==
  [][ (readOnly /\ lastOp' # "enliven:load") =>
        /\ scene' = scene
        /\ history' = history
        /\ emitted' = <<>>
    ]_vars

\* a read-only canvas shows the stored text, has taken a Delete key after
\* other events, and holds the one entry of the load
C23_Witness ==
  /\ readOnly
  /\ lastOp = "deleteKey:none"
  /\ activeColor = "blue"
  /\ Len(scene) = 1
  /\ history = <<toJSON(scene)>>

\* C30: after a colour-change command on a non-empty selection the scene is
\* the scene of before with exactly the selected objects recoloured, and the
\* history is the history of before plus exactly one entry, the snapshot of
\* that scene; with an empty selection the command changes nothing and
\* pushes nothing.
C30_ColorChangeRecolorsAndPushesOnce ==
  /\ (mark # <<>> /\ mark[1].op = "color") =>
       /\ scene = recolored(mark[1].scene, active, activeColor)
       /\ history = Append(mark[1].history, toJSON(scene))
  /\ lastOp = "colorChange:none" => active = {}

----------------------------------------------------------------------------
(* Properties of the keyboard, of the hit test, of the resize path and of   *)
(* the history as a record of the scene                                     *)

\* the objects of objs whose index is not in sel, in their order
KeptObjects(objs, sel) ==
  LET rest == {k \in 1..Len(objs) : k \notin sel}
      nth(j) == CHOOSE k \in rest : Cardinality({m \in rest : m <= k}) = j
  IN  [j \in 1..Cardinality(rest) |-> objs[nth(j)]]

KeyOutcomes == {"deleteKey:removed", "deleteKey:none", "keyDown:ignored"}

\* C31: a Delete or Backspace key outside a text field with a non-empty
\* selection removes exactly the selected objects and pushes exactly one
\* entry, the snapshot of what is left; with an empty selection, with a text
\* area or an input as target, or with another key, scene and history stay
\* as they are.
C31_DeleteRemovesSelectionOnce ==
  [][ lastOp' \in KeyOutcomes =>
        /\ (lastOp' = "deleteKey:removed") <=> (active # {} /\ lastOp' # "keyDown:ignored")
        /\ IF lastOp' = "deleteKey:removed"
             THEN /\ scene' = KeptObjects(scene, active)
                  /\ history' = Append(history, toJSON(scene'))
                  /\ Len(emitted') = 1
             ELSE /\ scene' = scene
                  /\ history' = history
    ]_vars

\* both objects of the page were selected and the key removed them: the
\* scene is empty and the history holds the load and the one new entry
C31_Witness ==
  /\ lastOp = "deleteKey:removed"
  /\ scene = <<>>
  /\ Len(history) = 2
  /\ Len(history[1].objects) = 2
  /\ history[2] = toJSON(<<>>)

DownOutcomes == {"mouseDown:ignored", "mouseDown:consumed", "mouseDown:text",
                 "mouseDown:start"}
MoveUpOutcomes == {"mouseMove", "mouseMove:ignored", "mouseUp:nothing",
                   "mouseUp:rejected", "mouseUp:commit", "mouseUp:ignored"}

NumericFields == {"left", "top", "width", "scaleX", "scaleY"}

\* C33: a numeric field (left, top, width, scaleX, scaleY) that an object
\* lacks is still absent after normalize and after denormalize: no value is
\* invented for it and it does not become NaN.
C33_MissingFieldsStayAbsent ==
  gStage \in {"normalized", "roundtrip", "resized"} =>
    \A i \in 1..Len(gIn.objects) : \A f \in NumericFields :
      gIn.objects[i][f] = Undef => gVal.objects[i][f] = Undef

\* what the resize effect hands to the deserializer
Reloaded == pending'[Len(pending')].objects

\* denormalize(normalize(scene, w1, h1), w2, h2) for the step of a resize
Renormalized ==
  denormalizeData(normalizeData(toJSON(scene), prevDimensions[1], prevDimensions[2]),
                  width', height').objects

LineFields == {"x1", "y1", "x2", "y2"}
BoxFields == {"left", "top", "width", "height", "fontSize", "strokeWidth", "radius",
              "scaleX", "scaleY"}

\* C34: the scene a resize from (w1, h1) to (w2, h2) reloads equals
\* denormalize(normalize(scene, w1, h1), w2, h2) on every geometric field,
\* the line coordinates x1, y1, x2, y2 included.
C34_ResizeIsRenormalization ==
  [][ lastOp' = "resize:reload" => Reloaded = Renormalized ]_vars

\* the same comparison on the fields other than the line coordinates
C34_ResizeAgreesOutsideLineCoordinates ==
  [][ lastOp' = "resize:reload" =>
        /\ Len(Reloaded) = Len(Renormalized)
        /\ \A i \in 1..Len(Reloaded) : \A f \in BoxFields :
             Reloaded[i][f] = Renormalized[i][f] ]_vars

\* no construction, no text edit, no transform and no deserialization is
\* under way
Quiescent == mounted /\ Quiet /\ pending = <<>>

\* C35: whenever the canvas is quiescent the snapshot of the live scene is
\* the top history entry, and a payload emitted by the step that led there is
\* the normalized form of that entry.
C35_QuiescentSceneIsTopEntry ==
  (Quiescent /\ history # <<>>) =>
    /\ toJSON(scene) = history[Len(history)]
    /\ emitted # <<>> =>
         emitted[Len(emitted)] = normalizeData(history[Len(history)], width, height)

\* C36: once every pending deserialization has completed, the scene holds
\* exactly the objects of the top history entry, whatever the order in which
\* undos, resizes, edits and completions were interleaved.
C36_SettledSceneIsTopEntry ==
  (mounted /\ pending = <<>> /\ transforming = 0 /\ history # <<>>) =>
    scene = history[Len(history)].objects

\* C37: the payload undo() emits is the payload that was emitted when the
\* entry it restores was pushed (entries above the first are pushed by
\* commits and by clear(), which emit), whatever resizes came in between.
C37_UndoEmitsTheOriginalPayload ==
  [][ (lastOp' \in {"undo", "undo:toEmpty"} /\ emitted' # <<>> /\ Len(history') >= 2) =>
        emitted'[Len(emitted')] = payloads[Len(history')] ]_vars

\* C38: a render of the parent that leaves the active colour as it is (new
\* callback identities after a commit) recolours no object and pushes no
\* history entry.
C38_RenderAloneChangesNothing ==
  [][ (lastOp' \in {"render", "render:recolored"} /\ activeColor' = activeColor) =>
        /\ scene' = scene
        /\ history' = history
        /\ emitted' = <<>> ]_vars

\* C40: a save is issued only for a document whose user_id is the stored
\* user token.
C40_SavesOnlyForOwnedDocuments ==
  \A i \in 1..Len(saves) : saves[i].id \in ownedDocs

\* the part of C40 about a read-only session: a change delivered by a canvas
\* schedules no save and leaves the annotations map as it is
C40_ReadOnlyDeliverySchedulesNothing ==
  [][ docOp'.op = "delivered:readOnly" =>
        /\ timers' = timers
        /\ saveRef' = saveRef
        /\ annotationsMap' = annotationsMap ]_vars

\* a call of the save function of page p waits for its timer
SavePending(p) ==
  \E i \in 1..Len(timers) : timers[i].fn.pageNumber = p

\* the save calls of page p, as indices in saves
SavesOf(p) == {i \in 1..Len(saves) : saves[i].pageNumber = p}

\* nothing waits for page p and the most recent save call of page p carried
\* the payload the page emitted last
SavedNewest(p) ==
  /\ ~SavePending(p)
  /\ SavesOf(p) # {}
  /\ LET last == CHOOSE i \in SavesOf(p) : \A j \in SavesOf(p) : j <= i
     IN  /\ saves[last].data = annotationsMap[p]
         /\ saves[last].data = saves[last].burst[Len(saves[last].burst)].data
         /\ saves[last].id = docId

\* C39: in a session that stays mounted, every change a page emits is
\* followed by a save call for that page that carries the newest payload of
\* the page (a burst of edits is bounded, so edits stop).
C39_EmittedChangeIsEventuallySaved ==
  \A p \in Pages : SavePending(p) ~> SavedNewest(p)

\* a save call of page 1 that followed a burst of two different payloads and
\* carried the second
C39_Witness ==
  /\ SavedNewest(1)
  /\ \E i \in SavesOf(1) :
       /\ Len(saves[i].burst) >= 2
       /\ saves[i].burst[1].data # saves[i].data
       /\ saves[i].data = annotationsMap[1]

====
